---- MODULE Spec2Model ----
(***************************************************************************)
(* A model of the WebGPU showcase: the WebGPUService (capability probe,    *)
(* adapter tiers, device request, device loss), the DemoBaseComponent      *)
(* (mount, acquisition, resize observation, render loop, unmount) and the  *)
(* demo pages that own a DemoBaseComponent and build GPU resources.        *)
(*                                                                         *)
(* Handles (devices, adapters, contexts, frame ids, buffers) are positive  *)
(* integers and Null stands for JavaScript's null.  A message is a tuple   *)
(* of its text parts, so that a template string `prefix${detail}` is the   *)
(* pair <<prefix, detail>> and NoMessage is the null of a signal<string |  *)
(* null>.                                                                  *)
(*                                                                         *)
(* One action is one JavaScript task: the code that runs from a browser    *)
(* callback (a promise settled by the browser, an animation frame, a DOM   *)
(* event) until the code suspends at the next browser-settled promise.     *)
(* Continuations that are separated only by already-settled promises run   *)
(* in the same microtask checkpoint and belong to the same action.         *)
(***************************************************************************)
EXTENDS Integers, Sequences, FiniteSets, TLC

Null == 0
NoMessage == <<>>

\* Bounds of the model.
MaxFrames == 4

VARIABLES
  gpu,     \* the browser: navigator.gpu, devices handed out, lost-handlers
  svc,     \* WebGPUService fields
  calls,   \* the initialize() calls in flight, per caller
  comp,    \* DemoBaseComponent fields
  dom,     \* the canvas, its container and window.devicePixelRatio
  raf,     \* the browser's animation-frame queue
  owner,   \* the demo page owning the DemoBaseComponent
  hist,    \* observations of the run (not program state)
  page,    \* the fields of the compute demo page (buffers, bind groups, step)
  heap,    \* every GPU buffer and texture created so far, by handle
  log      \* observations of the compute passes (not program state)

vars == <<gpu, svc, calls, comp, dom, raf, owner, hist, page, heap, log>>
resVars == <<page, heap, log>>

----------------------------------------------------------------------------
(* WebGPUService                                                           *)

ErrUnsupported ==
  <<"WebGPU is not supported in this browser. Please use Chrome 113+ or Edge 113+.">>
ErrNoAdapter ==
  <<"Failed to get GPU adapter. Your GPU may not support WebGPU. Check chrome://gpu for details.">>
ErrInitialize(message) == <<"Failed to initialize WebGPU: ", message>>
ErrNoCanvasContext == <<"Failed to get WebGPU context from canvas.">>
ErrDeviceLost(message) == <<"GPU device lost: ", message>>
ErrFallback == <<"Failed to initialize WebGPU">>

\* The three adapter preference tiers, in the order of the adapterOptions array.
adapterOptions == <<"high-performance", "default", "low-power">>

\* What the browser can answer to requestAdapter and requestDevice, the values
\* a rejected requestDevice can carry, and the messages of a device loss.
AdapterOutcomes == {"adapter", "null", "throw"}
RejectReasons ==
  { [isError |-> TRUE, message |-> "OperationError"],
    [isError |-> FALSE, message |-> "not an Error"] }
LossMessages == {"Device was destroyed", "GPU process crashed"}
CanvasOutcomes == {"ok", "noContext", "configureThrows"}

ServiceInit ==
  [ adapter |-> Null, device |-> Null, isSupported |-> "null",
    isInitialized |-> FALSE, error |-> NoMessage, adapterInfo |-> Null ]

checkSupport_AlwaysProbes(s, gpuPresent) ==
  LET s1 == [s EXCEPT !.isSupported = IF gpuPresent THEN "true" ELSE "false"]
      s2 == IF ~gpuPresent THEN [s1 EXCEPT !.error = ErrUnsupported] ELSE s1
  IN  [svc |-> s2, ret |-> gpuPresent, probed |-> TRUE]

\* checkSupport(): the probe runs only while isSupported is null.
\* probed tells whether 'gpu' in navigator was evaluated.
checkSupport(s, gpuPresent) ==
  IF s.isSupported # "null"
    THEN [svc |-> s, ret |-> (s.isSupported = "true"), probed |-> FALSE]
    ELSE LET s1 == [s EXCEPT !.isSupported = IF gpuPresent THEN "true" ELSE "false"]
             s2 == IF ~gpuPresent THEN [s1 EXCEPT !.error = ErrUnsupported] ELSE s1
         IN  [svc |-> s2, ret |-> gpuPresent, probed |-> TRUE]

\* initialize() from its entry to its first suspension at requestAdapter:
\* pc "done" carries the returned device (or Null), pc "adapter" waits for
\* the answer of tier 1.
initializeEnter(s, gpuPresent) ==
  IF s.device # Null
    THEN [svc |-> s, pc |-> "done", ret |-> s.device, probed |-> FALSE]
    ELSE LET r == checkSupport(s, gpuPresent)
         IN  IF ~r.ret
               THEN [svc |-> r.svc, pc |-> "done", ret |-> Null, probed |-> r.probed]
               ELSE [svc |-> r.svc, pc |-> "adapter", ret |-> Null, probed |-> r.probed]

\* The code after the adapter loop: the no-adapter failure, or adapterInfo
\* and the suspension at requestDevice.
afterAdapterLoop(s) ==
  IF s.adapter = Null
    THEN [svc |-> [s EXCEPT !.error = ErrNoAdapter], pc |-> "done", tier |-> 0]
    ELSE [svc |-> [s EXCEPT !.adapterInfo = s.adapter], pc |-> "device", tier |-> 0]

\* The answer of requestAdapter for tier `tier` (1..3): an adapter ends the
\* loop, null or an exception moves to the next tier; an exception leaves
\* this.adapter as it was.
adapterReply_ThrowEndsLoop(s, tier, outcome) ==
  LET s1 == IF outcome = "throw" THEN s
            ELSE [s EXCEPT !.adapter = IF outcome = "adapter" THEN 1 ELSE Null]
  IN  IF outcome = "adapter" \/ outcome = "throw" THEN afterAdapterLoop(s1)
      ELSE IF tier < Len(adapterOptions)
        THEN [svc |-> s1, pc |-> "adapter", tier |-> tier + 1]
        ELSE afterAdapterLoop(s1)

adapterReply(s, tier, outcome) ==
  LET s1 == IF outcome = "throw" THEN s
            ELSE [s EXCEPT !.adapter = IF outcome = "adapter" THEN 1 ELSE Null]
  IN  IF outcome = "adapter" THEN afterAdapterLoop(s1)
      ELSE IF tier < Len(adapterOptions)
        THEN [svc |-> s1, pc |-> "adapter", tier |-> tier + 1]
        ELSE afterAdapterLoop(s1)

\* requestDevice resolved with device d: the device is stored, the lost
\* handler is registered and the device is returned.
deviceResolved(s, d) ==
  [s EXCEPT !.device = d, !.isInitialized = TRUE]

\* requestDevice rejected: the catch block of initialize().
deviceRejected(s, reason) ==
  [s EXCEPT !.error =
     ErrInitialize(IF reason.isError THEN reason.message ELSE "Unknown error")]

deviceLost_KeepsDevice(s, message) ==
  [s EXCEPT !.error = ErrDeviceLost(message)]

\* The handler of device.lost.
deviceLost(s, message) ==
  [s EXCEPT !.error = ErrDeviceLost(message), !.device = Null,
            !.isInitialized = FALSE]

\* createContext() after `await this.initialize()`: ret is the context (the
\* model keeps the device of the WebGPUContext record), Null, or "throw" when
\* context.configure throws and the promise of createContext rejects.
createContextResume(s, device, canvasOutcome) ==
  IF device = Null THEN [svc |-> s, ret |-> "null", ctx |-> Null]
  ELSE IF canvasOutcome = "noContext"
    THEN [svc |-> [s EXCEPT !.error = ErrNoCanvasContext], ret |-> "null", ctx |-> Null]
  ELSE IF canvasOutcome = "configureThrows"
    THEN [svc |-> s, ret |-> "throw", ctx |-> Null]
  ELSE [svc |-> s, ret |-> "ctx", ctx |-> device]

----------------------------------------------------------------------------
(* The browser's animation-frame queue and the DOM                         *)

\* requestAnimationFrame(loop): the callback is queued under a fresh id.
requestAnimationFrame(r) ==
  [raf |-> [r EXCEPT !.pending = @ \cup {r.nextId}, !.nextId = @ + 1],
   id |-> r.nextId]

\* cancelAnimationFrame(id): the callback, if still queued, is dropped.
cancelAnimationFrame(r, id) ==
  [r EXCEPT !.pending = @ \ {id},
            !.cancelledTwice = @ \/ (id \in r.cancelled),
            !.cancelled = @ \cup {id}]

\* Layout sizes of the container in CSS pixels and values of
\* window.devicePixelRatio as fractions <<numerator, denominator>>: 0 (absent),
\* 2 (a high-density display) and 1/2 (a page zoomed out to 50%).
ContainerSizes == { <<800, 600>>, <<1, 1>> }
DevicePixelRatios == { <<0, 1>>, <<2, 1>>, <<1, 2>> }

\* The setter of HTMLCanvasElement.width / height: the attribute is an
\* unsigned long, so the number num / den is truncated to an integer.
setCanvasDimension(num, den) == num \div den

\* handleResize(): the canvas backing store follows the container.
handleResize(d) ==
  LET dpr == IF d.devicePixelRatio[1] # 0 THEN d.devicePixelRatio ELSE <<1, 1>>
  IN  [d EXCEPT !.canvasWidth = setCanvasDimension(d.rectWidth * dpr[1], dpr[2]),
                !.canvasHeight = setCanvasDimension(d.rectHeight * dpr[1], dpr[2])]

----------------------------------------------------------------------------
(* DemoBaseComponent                                                       *)

FpsWindow == 1000

ComponentInit ==
  [ pc |-> "unmounted", destroyed |-> FALSE,
    loading |-> TRUE, error |-> NoMessage, fps |-> 0, context |-> Null,
    animationFrameId |-> Null, lastTime |-> 0, frameCount |-> 0,
    fpsUpdateTime |-> 0, resizeObserver |-> "null" ]

\* ngOnDestroy() without the disconnect of the resize observer.
ngOnDestroy_KeepsObserver(c, r) ==
  [comp |-> [c EXCEPT !.destroyed = TRUE],
   raf |-> IF c.animationFrameId # Null
             THEN cancelAnimationFrame(r, c.animationFrameId) ELSE r]

\* ngOnDestroy(): the frame named by animationFrameId is cancelled and the
\* resize observer is disconnected; no field is reset.
ngOnDestroy(c, r) ==
  [comp |-> [c EXCEPT !.destroyed = TRUE,
                      !.resizeObserver =
                         IF c.resizeObserver # "null" THEN "disconnected" ELSE @],
   raf |-> IF c.animationFrameId # Null
             THEN cancelAnimationFrame(r, c.animationFrameId) ELSE r]

\* initializeWebGPU() up to `await this.webgpu.createContext(canvas)`.
initializeWebGPU(c) ==
  [c EXCEPT !.pc = "acquiring", !.resizeObserver = "observing"]

\* initializeWebGPU() after the await with the error set on every outcome.
initializeWebGPUResume_ErrorAlways(c, ret, ctx, serviceError) ==
  IF ret = "throw" THEN [comp |-> [c EXCEPT !.pc = "rejected"], emit |-> FALSE]
  ELSE [comp |-> [c EXCEPT !.pc = IF ret = "null" THEN "failed" ELSE "ready",
                           !.error = IF serviceError # NoMessage
                                       THEN serviceError ELSE ErrFallback,
                           !.context = ctx,
                           !.loading = FALSE],
        emit |-> ret = "ctx"]

\* initializeWebGPU() after the await: ret is the outcome of createContext,
\* serviceError the service's error signal at that time.  emit tells whether
\* contextReady.emit(ctx) is called.
initializeWebGPUResume(c, ret, ctx, serviceError) ==
  IF ret = "throw" THEN [comp |-> [c EXCEPT !.pc = "rejected"], emit |-> FALSE]
  ELSE IF ret = "null"
    THEN [comp |-> [c EXCEPT !.pc = "failed",
                             !.error = IF serviceError # NoMessage
                                         THEN serviceError ELSE ErrFallback,
                             !.loading = FALSE],
          emit |-> FALSE]
  ELSE [comp |-> [c EXCEPT !.pc = "ready", !.context = ctx, !.loading = FALSE],
        emit |-> TRUE]

loopClock_WritesEveryFrame(c, time) ==
  LET c1 == [c EXCEPT !.lastTime = time, !.frameCount = @ + 1]
  IN  [comp |-> [c1 EXCEPT !.fps = c1.frameCount, !.frameCount = 0,
                           !.fpsUpdateTime = time],
       deltaTime |-> time - c.lastTime]

loopClock_DeltaAfterUpdate(c, time) ==
  LET c1 == [c EXCEPT !.lastTime = time, !.frameCount = @ + 1]
  IN  [comp |-> IF time - c1.fpsUpdateTime >= FpsWindow
                  THEN [c1 EXCEPT !.fps = c1.frameCount, !.frameCount = 0,
                                  !.fpsUpdateTime = time]
                  ELSE c1,
       deltaTime |-> time - c1.lastTime]

\* The part of `loop` that precedes renderFn: delta time and the FPS counter.
loopClock(c, time) ==
  LET c1 == [c EXCEPT !.lastTime = time, !.frameCount = @ + 1]
  IN  [comp |-> IF time - c1.fpsUpdateTime >= FpsWindow
                  THEN [c1 EXCEPT !.fps = c1.frameCount, !.frameCount = 0,
                                  !.fpsUpdateTime = time]
                  ELSE c1,
       deltaTime |-> time - c.lastTime]

\* startRenderLoop(renderFn): the first frame is requested.
startRenderLoop(c, r) ==
  LET q == requestAnimationFrame(r)
  IN  [comp |-> [c EXCEPT !.animationFrameId = q.id], raf |-> q.raf]

\* stopRenderLoop()
stopRenderLoop(c, r) ==
  IF c.animationFrameId # Null
    THEN [comp |-> [c EXCEPT !.animationFrameId = Null],
          raf |-> cancelAnimationFrame(r, c.animationFrameId)]
    ELSE [comp |-> c, raf |-> r]

\* The end of `loop`: the next frame is requested.
loopReschedule(c, r) ==
  LET q == requestAnimationFrame(r)
  IN  [comp |-> [c EXCEPT !.animationFrameId = q.id], raf |-> q.raf]

----------------------------------------------------------------------------
(* The demo page that owns the DemoBaseComponent                           *)

\* Game of Life builds its pipeline without suspending; matrix
\* multiplication awaits device.queue.onSubmittedWorkDone() in runBenchmark
\* before onContextReady reaches startRendering.
OwnerKinds == {"game-of-life", "matrix-multiplication"}

OwnerInit(kind) ==
  [ kind |-> kind, context |-> Null, pipeline |-> FALSE, pc |-> "idle" ]

\* onContextReady(ctx) up to the first suspension: the context is stored and
\* initializePipeline runs; pc "benchmark" waits for the submitted work, pc
\* "starting" goes on to startRendering in the same task.
onContextReady(o, ctx) ==
  [o EXCEPT !.context = ctx, !.pipeline = TRUE,
            !.pc = IF o.kind = "matrix-multiplication" THEN "benchmark"
                   ELSE "starting"]

\* startRendering(): the render callback is handed to startRenderLoop.
startRendering(o, c, r) ==
  LET s == startRenderLoop(c, r)
  IN  [owner |-> [o EXCEPT !.pc = "rendering"], comp |-> s.comp, raf |-> s.raf]

\* contextReady.emit(ctx) with the (contextReady)="onContextReady($event)"
\* binding of the page template, when the listener is reached.
emitContextReady(o, c, r, ctx) ==
  LET o1 == onContextReady(o, ctx)
  IN  IF o1.pc = "starting" THEN startRendering(o1, c, r)
      ELSE [owner |-> o1, comp |-> c, raf |-> r]

----------------------------------------------------------------------------
(* Actions of the mounted demo                                             *)

Callers == {"home", "demo"}

HistInit ==
  [ frameAfterDestroy |-> FALSE, resizeAfterDestroy |-> FALSE,
    destroyedWhilePending |-> FALSE, emitted |-> FALSE,
    lostWhileReady |-> NoMessage, stoppedSince |-> FALSE, stopsInRow |-> 0,
    probes |-> 0, firstFrameSize |-> <<>>, afterLoss |-> {},
    requests |-> [c \in Callers |-> <<>>],
    outcomes |-> [c \in Callers |-> <<>>] ]

\* Observations of initialize(): the capability probes made, the options of
\* the requestAdapter calls of caller c and the browser's answers, in order.
\* The canvas backing size d at the first frame callback of a live component.
noteFrame(h, c, d) ==
  [h EXCEPT !.frameAfterDestroy = @ \/ c.destroyed,
            !.firstFrameSize = IF @ = <<>> /\ ~c.destroyed
                                 THEN <<d.canvasWidth, d.canvasHeight>> ELSE @]
\* Caller c enters initialize(); afterLoss collects the callers that entered
\* after the lost handler of some device had run.
noteCall(h, c, g) ==
  [h EXCEPT !.afterLoss = IF g.lostHandlers # 1 .. g.devices
                            THEN @ \cup {c} ELSE @]
noteProbe(h, probed) == [h EXCEPT !.probes = IF probed THEN @ + 1 ELSE @]
noteRequest(h, c, tier) ==
  [h EXCEPT !.requests[c] = Append(@, adapterOptions[tier])]
noteOutcome(h, c, outcome) == [h EXCEPT !.outcomes[c] = Append(@, outcome)]

Ready(c) == ~c.loading /\ c.error = NoMessage /\ c.context # Null

\* initialize() returned `device` to caller c with the service in state s.
\* For the home page the promise is dropped.  For the demo, createContext
\* and initializeWebGPU resume in the same microtask checkpoint.
\* contextReady is an output() of the framework: once the owning component
\* is destroyed its OutputEmitterRef no longer reaches a listener (the emit
\* is dropped or throws), so onContextReady runs only for a live component.
Returned(c, s, device, h) ==
  /\ calls' = [calls EXCEPT ![c] = [pc |-> "done", tier |-> 0, ret |-> device]]
  /\ IF c = "home"
       THEN /\ svc' = s
            /\ hist' = h
            /\ UNCHANGED <<comp, raf, owner>>
       ELSE \E canvasOutcome \in CanvasOutcomes :
              LET cc == createContextResume(s, device, canvasOutcome)
                  w  == initializeWebGPUResume(comp, cc.ret, cc.ctx, cc.svc.error)
                  e  == emitContextReady(owner, w.comp, raf, cc.ctx)
              IN  /\ svc' = cc.svc
                  /\ hist' = [h EXCEPT !.emitted = @ \/ w.emit]
                  /\ IF w.emit /\ ~comp.destroyed
                       THEN comp' = e.comp /\ raf' = e.raf /\ owner' = e.owner
                       ELSE comp' = w.comp /\ UNCHANGED <<raf, owner>>

\* HomeComponent.ngOnInit(): this.webgpu.initialize(), not awaited.
HomeInit ==
  /\ calls["home"].pc = "idle"
  /\ LET r == initializeEnter(svc, gpu.present)
     IN  IF r.pc = "done"
           THEN Returned("home", r.svc, r.ret,
                         noteProbe(noteCall(hist, "home", gpu), r.probed))
           ELSE /\ svc' = r.svc
                /\ calls' = [calls EXCEPT !["home"] = [pc |-> "adapter", tier |-> 1, ret |-> Null]]
                /\ hist' = noteRequest(noteProbe(noteCall(hist, "home", gpu),
                                                 r.probed), "home", 1)
                /\ UNCHANGED <<comp, raf, owner>>
  /\ UNCHANGED <<gpu, dom>>
  /\ UNCHANGED resVars

\* DemoBaseComponent.ngAfterViewInit(): the observer, the initial size and
\* the acquisition request.
Mount ==
  /\ comp.pc = "unmounted"
  /\ ~comp.destroyed
  /\ dom' = handleResize(dom)
  /\ LET c1 == initializeWebGPU(comp)
         r  == initializeEnter(svc, gpu.present)
     IN  IF r.pc = "done"
           THEN \E canvasOutcome \in CanvasOutcomes :
                  LET cc == createContextResume(r.svc, r.ret, canvasOutcome)
                      w  == initializeWebGPUResume(c1, cc.ret, cc.ctx, cc.svc.error)
                      e  == emitContextReady(owner, w.comp, raf, cc.ctx)
                  IN  /\ svc' = cc.svc
                      /\ calls' = [calls EXCEPT !["demo"] = [pc |-> "done", tier |-> 0, ret |-> r.ret]]
                      /\ hist' = [noteProbe(noteCall(hist, "demo", gpu), r.probed)
                                    EXCEPT !.emitted = @ \/ w.emit]
                      /\ IF w.emit
                           THEN comp' = e.comp /\ raf' = e.raf /\ owner' = e.owner
                           ELSE comp' = w.comp /\ UNCHANGED <<raf, owner>>
           ELSE /\ svc' = r.svc
                /\ calls' = [calls EXCEPT !["demo"] = [pc |-> "adapter", tier |-> 1, ret |-> Null]]
                /\ comp' = c1
                /\ hist' = noteRequest(noteProbe(noteCall(hist, "demo", gpu),
                                                 r.probed), "demo", 1)
                /\ UNCHANGED <<raf, owner>>
  /\ UNCHANGED gpu
  /\ UNCHANGED resVars

\* navigator.gpu.requestAdapter answers the call of caller c.
AdapterReply ==
  \E c \in Callers, outcome \in AdapterOutcomes :
    /\ calls[c].pc = "adapter"
    /\ LET r == adapterReply(svc, calls[c].tier, outcome)
           h == noteOutcome(hist, c, outcome)
       IN  IF r.pc = "done"
             THEN Returned(c, r.svc, Null, h)
             ELSE /\ svc' = r.svc
                  /\ calls' = [calls EXCEPT ![c] = [pc |-> r.pc, tier |-> r.tier, ret |-> Null]]
                  /\ hist' = IF r.pc = "adapter" THEN noteRequest(h, c, r.tier)
                             ELSE h
                  /\ UNCHANGED <<comp, raf, owner>>
    /\ UNCHANGED <<gpu, dom>>
    /\ UNCHANGED resVars

\* adapter.requestDevice resolves for caller c with a new device.
DeviceResolved ==
  \E c \in Callers :
    /\ calls[c].pc = "device"
    /\ LET d == gpu.devices + 1
       IN  /\ gpu' = [gpu EXCEPT !.devices = d, !.lostHandlers = @ \cup {d}]
           /\ Returned(c, deviceResolved(svc, d), d, hist)
    /\ UNCHANGED dom
    /\ UNCHANGED resVars

\* adapter.requestDevice rejects for caller c.
DeviceRejected ==
  \E c \in Callers, reason \in RejectReasons :
    /\ calls[c].pc = "device"
    /\ Returned(c, deviceRejected(svc, reason), Null, hist)
    /\ UNCHANGED <<gpu, dom>>
    /\ UNCHANGED resVars

\* The lost promise of device d resolves and its handler runs.
DeviceLost ==
  \E d \in gpu.lostHandlers, message \in LossMessages :
    /\ gpu' = [gpu EXCEPT !.lostHandlers = @ \ {d}]
    /\ svc' = deviceLost(svc, message)
    /\ hist' = [hist EXCEPT !.lostWhileReady =
                  IF Ready(comp) /\ ~comp.destroyed /\ comp.context = d
                    THEN <<message>> ELSE @]
    /\ UNCHANGED <<calls, comp, dom, raf, owner>>
    /\ UNCHANGED resVars

\* The container changes its layout size; the ResizeObserver callback runs
\* handleResize while the observer is observing.
ContainerResize ==
  \E size \in ContainerSizes :
    /\ comp.pc # "unmounted"
    /\ <<dom.rectWidth, dom.rectHeight>> # size
    /\ LET d1 == [dom EXCEPT !.rectWidth = size[1], !.rectHeight = size[2]]
       IN  IF comp.resizeObserver = "observing"
             THEN /\ dom' = handleResize(d1)
                  /\ hist' = [hist EXCEPT !.resizeAfterDestroy = @ \/ comp.destroyed]
             ELSE /\ dom' = d1
                  /\ UNCHANGED hist
    /\ UNCHANGED <<gpu, svc, calls, comp, raf, owner>>
    /\ UNCHANGED resVars

\* The interval between two animation frames, in milliseconds.
FrameInterval == 500

\* An animation frame: the browser runs the queued `loop` callback, which
\* calls the page's render callback and requests the next frame.
Frame ==
  \E id \in raf.pending :
    /\ raf.nextId <= MaxFrames
    /\ LET time == raf.now + FrameInterval
           k == loopClock(comp, time)
           n == loopReschedule(k.comp,
                  [raf EXCEPT !.pending = @ \ {id}, !.now = time])
       IN  /\ comp' = n.comp
           /\ raf' = n.raf
           /\ hist' = noteFrame(hist, comp, dom)
    /\ UNCHANGED <<gpu, svc, calls, dom, owner>>
    /\ UNCHANGED resVars

\* The page is left: DemoBaseComponent.ngOnDestroy().
Destroy ==
  /\ comp.pc # "unmounted"
  /\ ~comp.destroyed
  /\ LET r == ngOnDestroy(comp, raf)
     IN  /\ comp' = r.comp
         /\ raf' = r.raf
  /\ hist' = [hist EXCEPT !.destroyedWhilePending = (comp.pc = "acquiring")]
  /\ UNCHANGED <<gpu, svc, calls, dom, owner>>
  /\ UNCHANGED resVars

\* device.queue.onSubmittedWorkDone() resolves: runBenchmark,
\* initializePipeline and onContextReady resume and reach startRendering.
BenchmarkDone ==
  /\ owner.pc = "benchmark"
  /\ LET s == startRendering(owner, comp, raf)
     IN  /\ owner' = s.owner
         /\ comp' = s.comp
         /\ raf' = s.raf
  /\ UNCHANGED <<gpu, svc, calls, dom, hist>>
  /\ UNCHANGED resVars

\* The resource fields when the mounted page is not one of the compute demos.
NoPage == [ kind |-> "none" ]

\* frame is the command buffer of the last frame callback and the number of
\* queue.submit calls it made; gestures counts the wheel notches and the
\* mouse moves of a drag.
LogInit ==
  [ frames |-> 0, rebuilds |-> 0, rejected |-> 0, gestures |-> 0,
    steps |-> <<>>,
    frame |-> [commands |-> <<>>, submits |-> 0],
    clock |-> [ calls |-> 0, sinceWrite |-> 0, lastWrite |-> <<>>,
                call |-> <<>> ] ]

RafInit ==
  [ pending |-> {}, nextId |-> 1, now |-> 0, cancelled |-> {},
    cancelledTwice |-> FALSE ]

Init ==
  /\ gpu \in [ present : BOOLEAN, devices : {0}, lostHandlers : {{}} ]
  /\ svc = ServiceInit
  /\ calls = [c \in Callers |-> [pc |-> "idle", tier |-> 0, ret |-> Null]]
  /\ comp = ComponentInit
  /\ \E size \in ContainerSizes, dpr \in DevicePixelRatios :
       dom = [ rectWidth |-> size[1], rectHeight |-> size[2],
               devicePixelRatio |-> dpr, canvasWidth |-> 300,
               canvasHeight |-> 150 ]
  /\ raf = RafInit
  /\ \E kind \in OwnerKinds : owner = OwnerInit(kind)
  /\ hist = HistInit
  /\ page = NoPage
  /\ heap = <<>>
  /\ log = LogInit

Next ==
  \/ HomeInit
  \/ Mount
  \/ AdapterReply
  \/ DeviceResolved
  \/ DeviceRejected
  \/ DeviceLost
  \/ ContainerResize
  \/ Frame
  \/ Destroy
  \/ BenchmarkDone

Spec == Init /\ [][Next]_vars

----------------------------------------------------------------------------
(* The render loop driven through its interface: a page that calls         *)
(* startRenderLoop and stopRenderLoop at any time, startRenderLoop also    *)
(* while a loop is running, stopRenderLoop between frames or from inside   *)
(* its render callback.                                                    *)

FrameIntervals == {400, 600}
RenderCallbacks == {"render", "stop"}

ReadyComponent ==
  [ComponentInit EXCEPT !.pc = "ready", !.loading = FALSE, !.context = 1,
                        !.resizeObserver = "observing"]

\* The page calls startRenderLoop(render); startRenderLoop has no guard, so
\* the call may come while a loop is running.
SchedStart ==
  /\ raf.nextId <= MaxFrames
  /\ LET s == startRenderLoop(comp, raf)
     IN  comp' = s.comp /\ raf' = s.raf
  /\ hist' = [hist EXCEPT !.stoppedSince = FALSE, !.stopsInRow = 0]
  /\ UNCHANGED <<gpu, svc, calls, dom, owner>>
  /\ UNCHANGED resVars

\* The page calls stopRenderLoop() between two frames.
SchedStop ==
  /\ LET s == stopRenderLoop(comp, raf)
     IN  comp' = s.comp /\ raf' = s.raf
  /\ hist' = [hist EXCEPT !.stoppedSince = TRUE,
                          !.stopsInRow = IF @ < 2 THEN @ + 1 ELSE @]
  /\ UNCHANGED <<gpu, svc, calls, dom, owner>>
  /\ UNCHANGED resVars

\* An animation frame: the browser runs every callback that was queued when
\* the frame began, in the order of the requests and with one timestamp,
\* skipping those cancelled in the meantime; the callbacks requested during
\* the frame wait for the next one.  Each render callback either only draws
\* or calls stopRenderLoop() before it returns to `loop`.
SchedFrame ==
  \E dt \in FrameIntervals, cbs \in [raf.pending -> RenderCallbacks] :
    /\ raf.pending # {}
    /\ raf.nextId <= MaxFrames
    /\ LET time == raf.now + dt
           RECURSIVE run(_, _, _, _)
           run(c, r, queued, stopped) ==
             IF queued = {}
               THEN [comp |-> c, raf |-> r, stopped |-> stopped]
             ELSE
               LET id == CHOOSE i \in queued : \A k \in queued : i <= k
               IN  IF id \notin r.pending
                     THEN run(c, r, queued \ {id}, stopped)
                   ELSE
                     LET k == loopClock(c, time)
                         r0 == [r EXCEPT !.pending = @ \ {id}]
                         s == IF cbs[id] = "stop"
                                THEN stopRenderLoop(k.comp, r0)
                              ELSE [comp |-> k.comp, raf |-> r0]
                         n == loopReschedule(s.comp, s.raf)
                     IN  run(n.comp, n.raf, queued \ {id},
                             stopped \/ cbs[id] = "stop")
           f == run(comp, [raf EXCEPT !.now = time], raf.pending, FALSE)
       IN  /\ comp' = f.comp
           /\ raf' = f.raf
           /\ hist' = [hist EXCEPT !.stoppedSince = @ \/ f.stopped,
                                   !.stopsInRow = 0]
    /\ UNCHANGED <<gpu, svc, calls, dom, owner>>
    /\ UNCHANGED resVars

SchedInit ==
  /\ gpu = [ present |-> TRUE, devices |-> 1, lostHandlers |-> {1} ]
  /\ svc = [ServiceInit EXCEPT !.adapter = 1, !.adapterInfo = 1, !.device = 1,
                               !.isSupported = "true", !.isInitialized = TRUE]
  /\ calls = [c \in Callers |-> [pc |-> "idle", tier |-> 0, ret |-> Null]]
  /\ comp = ReadyComponent
  /\ dom = [ rectWidth |-> 800, rectHeight |-> 600, devicePixelRatio |-> <<2, 1>>,
             canvasWidth |-> 1600, canvasHeight |-> 1200 ]
  /\ raf = RafInit
  /\ owner = [OwnerInit("game-of-life") EXCEPT !.context = 1, !.pipeline = TRUE,
                                               !.pc = "starting"]
  /\ hist = HistInit
  /\ page = NoPage
  /\ heap = <<>>
  /\ log = LogInit

SchedNext ==
  \/ SchedStart
  \/ SchedStop
  \/ SchedFrame

SpecSched == SchedInit /\ [][SchedNext]_vars


----------------------------------------------------------------------------
(* The clock of the render loop: a running loop whose frames arrive at     *)
(* arbitrary timestamps.                                                   *)

MaxClockFrames == 6
ClockOrigins == {0, 5000}
ClockIntervals == {300, 700, 1100}

\* What the render callback is called with and what it can see when it is
\* called: the arguments, the FPS counter and the frames still queued.
renderCall(time, deltaTime, c, r) ==
  [ time |-> time, deltaTime |-> deltaTime, fps |-> c.fps,
    frameCount |-> c.frameCount, pending |-> r.pending ]

\* The observations of one invocation of `loop`: the number of invocations,
\* those since the last write of the fps signal, and the time of that write.
noteClock(k, c0, c1, call) ==
  [ calls |-> k.calls + 1,
    sinceWrite |-> IF c1.fpsUpdateTime # c0.fpsUpdateTime THEN 0
                   ELSE k.sinceWrite + 1,
    lastWrite |-> IF c1.fpsUpdateTime # c0.fpsUpdateTime THEN <<call.time>>
                  ELSE k.lastWrite,
    call |-> <<call>> ]

\* An animation frame: `loop` runs with the timestamp of the frame.
ClockFrame ==
  \E id \in raf.pending, dt \in ClockIntervals :
    /\ raf.nextId <= MaxClockFrames
    /\ LET time == raf.now + dt
           k  == loopClock(comp, time)
           r0 == [raf EXCEPT !.pending = @ \ {id}, !.now = time]
           n  == loopReschedule(k.comp, r0)
       IN  /\ comp' = n.comp
           /\ raf' = n.raf
           /\ log' = [log EXCEPT !.clock =
                        noteClock(@, comp, k.comp,
                                  renderCall(time, k.deltaTime, k.comp, r0))]
    /\ UNCHANGED <<gpu, svc, calls, dom, owner, hist, page, heap>>

ClockInit ==
  /\ gpu = [ present |-> TRUE, devices |-> 1, lostHandlers |-> {1} ]
  /\ svc = [ServiceInit EXCEPT !.adapter = 1, !.adapterInfo = 1, !.device = 1,
                               !.isSupported = "true", !.isInitialized = TRUE]
  /\ calls = [c \in Callers |-> [pc |-> "idle", tier |-> 0, ret |-> Null]]
  /\ dom = [ rectWidth |-> 800, rectHeight |-> 600, devicePixelRatio |-> <<2, 1>>,
             canvasWidth |-> 1600, canvasHeight |-> 1200 ]
  /\ \E origin \in ClockOrigins :
       LET s == startRenderLoop(ReadyComponent, [RafInit EXCEPT !.now = origin])
       IN  comp = s.comp /\ raf = s.raf
  /\ owner = [OwnerInit("game-of-life") EXCEPT !.context = 1, !.pipeline = TRUE,
                                               !.pc = "starting"]
  /\ hist = HistInit
  /\ page = NoPage
  /\ heap = <<>>
  /\ log = LogInit

ClockNext == ClockFrame

SpecClock == ClockInit /\ [][ClockNext]_vars

----------------------------------------------------------------------------
(* GPU resources of the compute demos.  A buffer handle is the position of *)
(* the buffer in heap.  A bind group is the tuple of the buffers of its    *)
(* entries: position b + 1 holds the buffer of binding b.  A JavaScript    *)
(* array index i is position i + 1 of the tuple that models the array.     *)

MaxRebuilds == 2

\* device.createBuffer({size, usage}) assigned to the field or local `label`;
\* the new handle is Len(h) + 1.
createBuffer(h, label, size, usage) ==
  Append(h, [label |-> label, size |-> size, usage |-> usage,
             destroyed |-> 0, data |-> <<>>])

\* device.createTexture({size: [width, height], usage})
createTexture(h, label, width, height) ==
  Append(h, [label |-> label, size |-> <<width, height>>,
             usage |-> {"RENDER_ATTACHMENT"}, destroyed |-> 0, data |-> <<>>])

\* device.queue.writeBuffer(buffer, 0, data)
writeBuffer(h, buffer, data) == [h EXCEPT ![buffer].data = data]

\* buffer.destroy(); the heap counts the calls per buffer.
destroy(h, buffer) == [h EXCEPT ![buffer].destroyed = @ + 1]

\* buffers.forEach(b => b.destroy())
RECURSIVE destroyEach(_, _)
destroyEach(h, buffers) ==
  IF buffers = <<>> THEN h
  ELSE destroyEach(destroy(h, Head(buffers)), Tail(buffers))

\* [0, 1].map(() => { createBuffer; writeBuffer(buffer, 0, data); return buffer })
createPair(h, label, size, usage, data) ==
  LET h1 == writeBuffer(createBuffer(h, label, size, usage), Len(h) + 1, data)
      h2 == writeBuffer(createBuffer(h1, label, size, usage), Len(h) + 2, data)
  IN  [heap |-> h2, buffers |-> <<Len(h) + 1, Len(h) + 2>>]

\* Math.min(deltaTime * 0.001, 0.02), in milliseconds.
clampDelta(deltaTime) == IF deltaTime < 20 THEN deltaTime ELSE 20

\* A compute pass of a command encoder: beginComputePass, setBindGroup(0,
\* entries), dispatchWorkgroups, end.
computeCommand(pass, entries) == [pass |-> pass, entries |-> entries]

\* A render pass of a command encoder: beginRenderPass, the bind group or
\* vertex buffers holding the simulation state in `reads`, draw, end.
renderCommand(reads) == [pass |-> "render", reads |-> reads]

\* A render pass whose draw call is instanced: setVertexBuffer(slot, buffer)
\* of the per-instance buffer, then draw(vertexCount, instanceCount) or
\* drawIndexed(indexCount, instanceCount).
drawCommand(buffer, instanceCount) ==
  [pass |-> "render", reads |-> {buffer}, instanceCount |-> instanceCount]

\* A render callback that returned before it encoded anything.
skipFrame(p, h) ==
  [page |-> p, heap |-> h, passes |-> <<>>, commands |-> <<>>, submits |-> 0]

\* The compute pass a render callback encodes for simulation step k:
\* setBindGroup(0, groups[k % 2]).
computePass(k, groups) ==
  [k |-> k, index |-> k % 2, entries |-> groups[(k % 2) + 1], groups |-> groups]

----------------------------------------------------------------------------
(* GameOfLifeComponent                                                     *)

GameOfLifeInit ==
  [ kind |-> "game-of-life", gridSize |-> 256, simulationSpeed |-> 15,
    paused |-> FALSE, generation |-> 0,
    computePipeline |-> FALSE, renderPipeline |-> FALSE,
    cellBuffers |-> <<>>, uniformBuffer |-> Null,
    computeBindGroups |-> <<>>, renderBindGroups |-> <<>>,
    context |-> Null, step |-> 0, lastUpdateTime |-> 0 ]

\* The compute bind groups with the same entries in both groups.
GameOfLife_computeBindGroups_NoSwap(cellBuffers, uniformBuffer) ==
  << <<cellBuffers[1], cellBuffers[2], uniformBuffer>>,
     <<cellBuffers[1], cellBuffers[2], uniformBuffer>> >>

\* this.computeBindGroups: binding 0 cellsIn, binding 1 cellsOut, binding 2
\* grid.
GameOfLife_computeBindGroups(cellBuffers, uniformBuffer) ==
  << <<cellBuffers[1], cellBuffers[2], uniformBuffer>>,
     <<cellBuffers[2], cellBuffers[1], uniformBuffer>> >>

\* initializePipeline(clear): it never suspends.
GameOfLife_initializePipeline(p, h, clear) ==
  IF p.context = Null THEN [page |-> p, heap |-> h]
  ELSE
    LET h0 == destroyEach(h, p.cellBuffers)
        n  == p.gridSize * p.gridSize
        cells == createPair(h0, "cellBuffers", n * 4, {"STORAGE", "COPY_DST"},
                            <<IF clear THEN "zeros" ELSE "random", n>>)
        u  == Len(cells.heap) + 1
        h1 == writeBuffer(createBuffer(cells.heap, "uniformBuffer", 16,
                                       {"UNIFORM", "COPY_DST"}),
                          u, <<p.gridSize, p.gridSize>>)
    IN  [page |-> [p EXCEPT
                     !.cellBuffers = cells.buffers,
                     !.uniformBuffer = u,
                     !.computePipeline = TRUE,
                     !.computeBindGroups =
                        GameOfLife_computeBindGroups(cells.buffers, u),
                     !.renderPipeline = TRUE,
                     !.renderBindGroups = << <<cells.buffers[1], u>>,
                                             <<cells.buffers[2], u>> >>],
         heap |-> h1]

GameOfLife_restart_KeepsGeneration(p, h, clear) ==
  IF p.context # Null THEN GameOfLife_initializePipeline(p, h, clear)
  ELSE [page |-> p, heap |-> h]

\* onGridSizeChange(), randomize() and clear(): clear() passes true.
GameOfLife_restart(p, h, clear) ==
  LET p1 == [p EXCEPT !.generation = 0]
  IN  IF p1.context # Null THEN GameOfLife_initializePipeline(p1, h, clear)
      ELSE [page |-> p1, heap |-> h]

\* The render callback of startRendering().
GameOfLife_render(p, h, time) ==
  IF p.context = Null \/ ~p.computePipeline \/ ~p.renderPipeline
    THEN skipFrame(p, h)
  ELSE IF ~p.paused /\ (time - p.lastUpdateTime) * p.simulationSpeed > 1000
    THEN [page |-> [p EXCEPT !.step = @ + 1, !.generation = @ + 1,
                             !.lastUpdateTime = time],
          heap |-> h,
          passes |-> <<computePass(p.step, p.computeBindGroups)>>,
          commands |->
            << computeCommand("compute", p.computeBindGroups[(p.step % 2) + 1]),
               renderCommand({p.renderBindGroups[((p.step + 1) % 2) + 1][1]}) >>,
          submits |-> 1]
  ELSE [page |-> p, heap |-> h, passes |-> <<>>,
        commands |-> <<renderCommand({p.renderBindGroups[(p.step % 2) + 1][1]})>>,
        submits |-> 1]

----------------------------------------------------------------------------
(* ParticleSystemComponent                                                 *)

ParticleSystemInit ==
  [ kind |-> "particle-system", particleCount |-> 50000,
    gravity |-> 500, particleSize |-> 3000, spawnRate |-> 500,
    computePipeline |-> FALSE, renderPipeline |-> FALSE,
    particleBuffers |-> <<>>, uniformBuffer |-> Null,
    computeBindGroups |-> <<>>, renderBindGroup |-> <<>>,
    context |-> Null, step |-> 0, lastTime |-> 0 ]

\* this.computeBindGroups: binding 0 particlesIn, binding 1 particlesOut,
\* binding 2 uniforms.
ParticleSystem_computeBindGroups(particleBuffers, uniformBuffer) ==
  << <<particleBuffers[1], particleBuffers[2], uniformBuffer>>,
     <<particleBuffers[2], particleBuffers[1], uniformBuffer>> >>

\* initializePipeline(), called by onContextReady, onParticleCountChange and
\* resetParticles.
ParticleSystem_initializePipeline(p, h) ==
  IF p.context = Null THEN [page |-> p, heap |-> h]
  ELSE
    LET h0 == destroyEach(h, p.particleBuffers)
        particles == createPair(h0, "particleBuffers", p.particleCount * 6 * 4,
                                {"STORAGE", "VERTEX", "COPY_DST"},
                                <<"random", p.particleCount * 6>>)
        u  == Len(particles.heap) + 1
        h1 == createBuffer(particles.heap, "uniformBuffer", 32,
                           {"UNIFORM", "COPY_DST"})
    IN  [page |-> [p EXCEPT
                     !.particleBuffers = particles.buffers,
                     !.uniformBuffer = u,
                     !.computePipeline = TRUE,
                     !.computeBindGroups =
                        ParticleSystem_computeBindGroups(particles.buffers, u),
                     !.renderPipeline = TRUE,
                     !.renderBindGroup = <<u>>],
         heap |-> h1]

\* The render callback with the render pass encoded before the compute pass.
ParticleSystem_render_RenderFirst(p, h, time, d) ==
  IF p.context = Null \/ ~p.computePipeline \/ ~p.renderPipeline
    THEN skipFrame(p, h)
  ELSE [page |-> [p EXCEPT !.lastTime = time, !.step = @ + 1],
        heap |-> writeBuffer(h, p.uniformBuffer,
                             <<time - p.lastTime, p.gravity, p.spawnRate, time,
                               p.particleSize, <<d.canvasWidth, d.canvasHeight>> >>),
        passes |-> <<computePass(p.step, p.computeBindGroups)>>,
        commands |->
          << drawCommand(p.particleBuffers[((p.step + 1) % 2) + 1],
                         p.particleCount),
             computeCommand("compute", p.computeBindGroups[(p.step % 2) + 1]) >>,
        submits |-> 1]

\* The render callback of startRendering(); lastTime is its closure variable.
\* The uniforms are deltaTime, gravity, spawnRate, time, particleSize and the
\* aspect ratio, kept as the pair of canvas width and height.
ParticleSystem_render(p, h, time, d) ==
  IF p.context = Null \/ ~p.computePipeline \/ ~p.renderPipeline
    THEN skipFrame(p, h)
  ELSE [page |-> [p EXCEPT !.lastTime = time, !.step = @ + 1],
        heap |-> writeBuffer(h, p.uniformBuffer,
                             <<time - p.lastTime, p.gravity, p.spawnRate, time,
                               p.particleSize, <<d.canvasWidth, d.canvasHeight>> >>),
        passes |-> <<computePass(p.step, p.computeBindGroups)>>,
        commands |->
          << computeCommand("compute", p.computeBindGroups[(p.step % 2) + 1]),
             drawCommand(p.particleBuffers[((p.step + 1) % 2) + 1],
                         p.particleCount) >>,
        submits |-> 1]

----------------------------------------------------------------------------
(* FluidSimulationComponent                                                *)

FluidSimulationInit ==
  [ kind |-> "fluid-simulation", gridSize |-> 128,
    computePipeline |-> FALSE, renderPipeline |-> FALSE,
    velocityBuffers |-> <<>>, densityBuffers |-> <<>>, colorBuffers |-> <<>>,
    uniformBuffer |-> Null, bindGroups |-> <<>>, renderBindGroup |-> <<>>,
    context |-> Null, step |-> 0 ]

\* initializeBuffers(): the three field pairs are destroyed and recreated.
FluidSimulation_initializeBuffers(p, h) ==
  IF p.context = Null THEN [page |-> p, heap |-> h]
  ELSE
    LET size == p.gridSize * p.gridSize * 4
        zeros == <<"zeros", p.gridSize * p.gridSize * 4>>
        h0 == destroyEach(destroyEach(destroyEach(h, p.velocityBuffers),
                                      p.densityBuffers), p.colorBuffers)
        vel  == createPair(h0, "velocityBuffers", size,
                           {"STORAGE", "COPY_DST"}, zeros)
        dens == createPair(vel.heap, "densityBuffers", size,
                           {"STORAGE", "COPY_DST"}, zeros)
        col  == createPair(dens.heap, "colorBuffers", size,
                           {"STORAGE", "COPY_DST", "TEXTURE_BINDING"}, zeros)
    IN  [page |-> [p EXCEPT !.velocityBuffers = vel.buffers,
                            !.densityBuffers = dens.buffers,
                            !.colorBuffers = col.buffers],
         heap |-> col.heap]

\* this.bindGroups[i]: binding 0 uniforms, 1 velocityIn, 2 velocityOut,
\* 3 densityIn, 4 densityOut, 5 colorIn, 6 colorOut.
FluidSimulation_bindGroups(p) ==
  [ i \in 1..2 |->
      << p.uniformBuffer,
         p.velocityBuffers[i], p.velocityBuffers[3 - i],
         p.densityBuffers[i],  p.densityBuffers[3 - i],
         p.colorBuffers[i],    p.colorBuffers[3 - i] >> ]

\* initializePipeline(), called by onContextReady and onGridSizeChange.
FluidSimulation_initializePipeline(p, h) ==
  IF p.context = Null THEN [page |-> p, heap |-> h]
  ELSE
    LET b  == FluidSimulation_initializeBuffers(p, h)
        u  == Len(b.heap) + 1
        h1 == createBuffer(b.heap, "uniformBuffer", 64, {"UNIFORM", "COPY_DST"})
        p1 == [b.page EXCEPT !.uniformBuffer = u, !.computePipeline = TRUE]
        p2 == [p1 EXCEPT !.bindGroups = FluidSimulation_bindGroups(p1),
                         !.renderPipeline = TRUE]
        i  == (p2.step % 2) + 1
    IN  [page |-> [p2 EXCEPT !.renderBindGroup =
                     <<u, p2.densityBuffers[i], p2.velocityBuffers[i],
                       p2.colorBuffers[i]>>],
         heap |-> h1]

\* The device calls of initializePipeline() at which the browser may throw:
\* createBuffer of the uniform buffer, createShaderModule of the compute
\* shader, createShaderModule of the render shader.
FaultPoints == {"uniformBuffer", "computeModule", "renderModule"}

\* initializePipeline() when the device call `at` throws: the assignments
\* made before the call are kept, the promise of the async function is
\* rejected.
FluidSimulation_initializePipeline_Throws(p, h, at) ==
  LET b  == FluidSimulation_initializeBuffers(p, h)
      u  == Len(b.heap) + 1
      h1 == createBuffer(b.heap, "uniformBuffer", 64, {"UNIFORM", "COPY_DST"})
      p1 == [b.page EXCEPT !.uniformBuffer = u]
      p2 == [p1 EXCEPT !.computePipeline = TRUE,
                       !.bindGroups = FluidSimulation_bindGroups(p1)]
  IN  CASE at = "uniformBuffer" -> [page |-> b.page, heap |-> b.heap]
        [] at = "computeModule" -> [page |-> p1, heap |-> h1]
        [] at = "renderModule"  -> [page |-> p2, heap |-> h1]

\* The render callback of startRendering(): a uniform buffer for the render
\* pass is created in every frame.
FluidSimulation_render(p, h, time, deltaTime) ==
  IF p.context = Null \/ ~p.computePipeline \/ ~p.renderPipeline
    THEN skipFrame(p, h)
  ELSE
    LET h1 == writeBuffer(h, p.uniformBuffer,
                          <<p.gridSize, time, clampDelta(deltaTime)>>)
        r  == Len(h1) + 1
        h2 == writeBuffer(createBuffer(h1, "renderUniformBuffer", 32,
                                       {"UNIFORM", "COPY_DST"}),
                          r, <<p.gridSize>>)
    IN  IF Len(p.densityBuffers) < 2 \/ Len(p.velocityBuffers) < 2
           \/ Len(p.colorBuffers) < 2
          THEN [page |-> p, heap |-> h2, passes |-> <<>>,
                commands |-> <<>>, submits |-> 0]
          ELSE [page |-> [p EXCEPT !.step = @ + 1], heap |-> h2,
                passes |-> <<computePass(p.step, p.bindGroups)>>,
                commands |->
                  << computeCommand("compute", p.bindGroups[(p.step % 2) + 1]),
                     renderCommand({p.densityBuffers[((p.step + 1) % 2) + 1],
                                    p.velocityBuffers[((p.step + 1) % 2) + 1],
                                    p.colorBuffers[((p.step + 1) % 2) + 1]}) >>,
                submits |-> 1]

----------------------------------------------------------------------------
(* RigidBodyPhysicsComponent                                               *)

RigidBodyPhysicsInit ==
  [ kind |-> "rigid-body-physics", bodyCount |-> 100,
    computePipeline |-> FALSE, renderPipeline |-> FALSE,
    positionBuffers |-> <<>>, velocityBuffers |-> <<>>,
    uniformBuffer |-> Null, indexBuffer |-> Null, vertexBuffer |-> Null,
    mvpBuffer |-> Null, computeBindGroups |-> <<>>, renderBindGroup |-> <<>>,
    context |-> Null, step |-> 0, indexCount |-> 0 ]

\* initializeBuffers(): positions and velocities are destroyed and recreated.
RigidBodyPhysics_initializeBuffers(p, h) ==
  IF p.context = Null THEN [page |-> p, heap |-> h]
  ELSE
    LET size == p.bodyCount * 16
        h0 == destroyEach(destroyEach(h, p.positionBuffers), p.velocityBuffers)
        pos == createPair(h0, "positionBuffers", size,
                          {"STORAGE", "VERTEX", "COPY_DST"},
                          <<"random", p.bodyCount * 4>>)
        vel == createPair(pos.heap, "velocityBuffers", size,
                          {"STORAGE", "COPY_DST"}, <<"random", p.bodyCount * 4>>)
    IN  [page |-> [p EXCEPT !.positionBuffers = pos.buffers,
                            !.velocityBuffers = vel.buffers],
         heap |-> vel.heap]

\* this.computeBindGroups[i]: binding 0 uniforms, 1 posIn, 2 velIn, 3 posOut,
\* 4 velOut.
RigidBodyPhysics_computeBindGroups(p) ==
  [ i \in 1..2 |->
      << p.uniformBuffer,
         p.positionBuffers[i], p.velocityBuffers[i],
         p.positionBuffers[3 - i], p.velocityBuffers[3 - i] >> ]

\* initializePipeline(), called by onContextReady and onBodyCountChange; the
\* sphere has 16 segments (17 * 17 vertices, 16 * 16 * 6 indices).
RigidBodyPhysics_initializePipeline(p, h) ==
  IF p.context = Null THEN [page |-> p, heap |-> h]
  ELSE
    LET b  == RigidBodyPhysics_initializeBuffers(p, h)
        u  == Len(b.heap) + 1
        h1 == createBuffer(b.heap, "uniformBuffer", 64, {"UNIFORM", "COPY_DST"})
        v  == Len(h1) + 1
        h2 == writeBuffer(createBuffer(h1, "vertexBuffer", 17 * 17 * 3 * 4,
                                       {"VERTEX", "COPY_DST"}),
                          v, <<"sphere", 17 * 17 * 3>>)
        x  == Len(h2) + 1
        h3 == writeBuffer(createBuffer(h2, "indexBuffer", 16 * 16 * 6 * 4,
                                       {"INDEX", "COPY_DST"}),
                          x, <<"sphere", 16 * 16 * 6>>)
        m  == Len(h3) + 1
        h4 == createBuffer(h3, "mvpBuffer", 64, {"UNIFORM", "COPY_DST"})
        p1 == [b.page EXCEPT !.uniformBuffer = u, !.indexCount = 16 * 16 * 6,
                             !.indexBuffer = x, !.computePipeline = TRUE]
    IN  [page |-> [p1 EXCEPT
                     !.computeBindGroups = RigidBodyPhysics_computeBindGroups(p1),
                     !.renderPipeline = TRUE,
                     !.renderBindGroup = <<m>>,
                     !.mvpBuffer = m,
                     !.vertexBuffer = v],
         heap |-> h4]

\* The render callback of startRendering(): a depth texture of the canvas
\* size is created in every frame, and the pass draws this.bodyCount
\* instances from positionBuffers[(step + 1) % 2].
RigidBodyPhysics_render(p, h, time, deltaTime, d) ==
  IF p.context = Null \/ ~p.computePipeline \/ ~p.renderPipeline
    THEN skipFrame(p, h)
  ELSE
    LET h1 == writeBuffer(h, p.uniformBuffer,
                          <<p.bodyCount, clampDelta(deltaTime)>>)
        h2 == writeBuffer(h1, p.mvpBuffer, <<time, d.canvasWidth, d.canvasHeight>>)
        h3 == createTexture(h2, "depthTexture", d.canvasWidth, d.canvasHeight)
    IN  [page |-> [p EXCEPT !.step = @ + 1], heap |-> h3,
         passes |-> <<computePass(p.step, p.computeBindGroups)>>,
         commands |->
           << computeCommand("compute", p.computeBindGroups[(p.step % 2) + 1]),
              drawCommand(p.positionBuffers[((p.step + 1) % 2) + 1],
                          p.bodyCount) >>,
         submits |-> 1]

----------------------------------------------------------------------------
(* PhysicsSimulationComponent (cloth)                                      *)

PhysicsSimulationInit ==
  [ kind |-> "physics-simulation", gridSize |-> 32,
    gravity |-> 500, stiffness |-> 800, damping |-> 980, wind |-> 200,
    computePipeline |-> FALSE, renderPipeline |-> FALSE,
    constraintPipeline |-> FALSE,
    positionBuffers |-> <<>>, prevPositionBuffer |-> Null,
    uniformBuffer |-> Null, indexBuffer |-> Null, mvpBuffer |-> Null,
    computeBindGroups |-> <<>>, constraintBindGroups |-> <<>>,
    renderBindGroup |-> <<>>, context |-> Null, step |-> 0, indexCount |-> 0 ]

\* this.computeBindGroups: binding 0 posIn, binding 1 posOut, binding 2
\* prevPos, binding 3 uniforms.
PhysicsSimulation_computeBindGroups(p) ==
  << <<p.positionBuffers[1], p.positionBuffers[2], p.prevPositionBuffer,
       p.uniformBuffer>>,
     <<p.positionBuffers[2], p.positionBuffers[1], p.prevPositionBuffer,
       p.uniformBuffer>> >>

\* initializePipeline(), called by onContextReady and resetSimulation.
PhysicsSimulation_initializePipeline(p, h) ==
  IF p.context = Null THEN [page |-> p, heap |-> h]
  ELSE
    LET h0 == destroyEach(h, p.positionBuffers)
        n  == p.gridSize * p.gridSize * 4
        count == (p.gridSize - 1) * (p.gridSize - 1) * 6
        pos == createPair(h0, "positionBuffers", n * 4,
                          {"STORAGE", "VERTEX", "COPY_DST"}, <<"grid", n>>)
        v  == Len(pos.heap) + 1
        h1 == writeBuffer(createBuffer(pos.heap, "prevPositionBuffer", n * 4,
                                       {"STORAGE", "COPY_DST"}),
                          v, <<"grid", n>>)
        u  == Len(h1) + 1
        h2 == createBuffer(h1, "uniformBuffer", 48, {"UNIFORM", "COPY_DST"})
        x  == Len(h2) + 1
        h3 == writeBuffer(createBuffer(h2, "indexBuffer", count * 4,
                                       {"INDEX", "COPY_DST"}),
                          x, <<"grid", count>>)
        m  == Len(h3) + 1
        h4 == createBuffer(h3, "mvpBuffer", 64, {"UNIFORM", "COPY_DST"})
        p1 == [p EXCEPT !.positionBuffers = pos.buffers,
                        !.prevPositionBuffer = v,
                        !.uniformBuffer = u,
                        !.indexCount = count,
                        !.indexBuffer = x,
                        !.computePipeline = TRUE]
    IN  [page |-> [p1 EXCEPT
                     !.computeBindGroups = PhysicsSimulation_computeBindGroups(p1),
                     !.constraintPipeline = TRUE,
                     !.constraintBindGroups = << <<pos.buffers[1], u>>,
                                                 <<pos.buffers[2], u>> >>,
                     !.renderPipeline = TRUE,
                     !.renderBindGroup = <<m>>,
                     !.mvpBuffer = m],
         heap |-> h4]

\* The render callback of startRendering(): the physics pass, five
\* constraint passes on constraintBindGroups[(step + 1) % 2], the render pass.
PhysicsSimulation_render(p, h, time, d) ==
  IF p.context = Null \/ ~p.computePipeline \/ ~p.renderPipeline
    THEN skipFrame(p, h)
  ELSE
    LET h1 == writeBuffer(h, p.uniformBuffer,
                          <<p.gravity, p.damping, p.wind, time, p.gridSize,
                            p.stiffness>>)
        h2 == writeBuffer(h1, p.mvpBuffer, <<time, d.canvasWidth, d.canvasHeight>>)
        c  == computeCommand("constraint",
                             p.constraintBindGroups[((p.step + 1) % 2) + 1])
    IN  [page |-> [p EXCEPT !.step = @ + 1], heap |-> h2,
         passes |-> <<computePass(p.step, p.computeBindGroups)>>,
         commands |->
           << computeCommand("compute", p.computeBindGroups[(p.step % 2) + 1]),
              c, c, c, c, c,
              renderCommand({p.positionBuffers[((p.step + 1) % 2) + 1]}) >>,
         submits |-> 1]

----------------------------------------------------------------------------
(* The pages that draw instances: a count slider bound with [(ngModel)]    *)
(* and a (change) handler that reallocates the per-instance buffer.        *)
(* Fractions are in thousandths.                                           *)

InstancedRenderingInit ==
  [ kind |-> "instanced-rendering", instanceCount |-> 10000,
    cubeSize |-> 50, rotationSpeed |-> 1000, spread |-> 5000,
    pattern |-> "cube", pipeline |-> FALSE,
    vertexBuffer |-> Null, indexBuffer |-> Null, instanceBuffer |-> Null,
    uniformBuffer |-> Null, bindGroup |-> <<>>, depthTexture |-> Null,
    context |-> Null ]

\* generateInstances(), called by initializePipeline and, through
\* onInstanceCountChange(), by the (change) event of the count slider:
\* eight floats per instance.
InstancedRendering_generateInstances(p, h) ==
  IF p.context = Null THEN [page |-> p, heap |-> h]
  ELSE
    LET h0 == IF p.instanceBuffer # Null THEN destroy(h, p.instanceBuffer)
              ELSE h
        b  == Len(h0) + 1
        h1 == writeBuffer(createBuffer(h0, "instanceBuffer",
                                       p.instanceCount * 8 * 4,
                                       {"VERTEX", "COPY_DST"}),
                          b, <<p.pattern, p.instanceCount * 8>>)
    IN  [page |-> [p EXCEPT !.instanceBuffer = b], heap |-> h1]

\* initializePipeline(), called by onContextReady: the cube of 24 vertices
\* and 36 indices, the instances, the uniforms, the depth texture of the
\* canvas size, the pipeline and its bind group.
InstancedRendering_initializePipeline(p, h, d) ==
  IF p.context = Null THEN [page |-> p, heap |-> h]
  ELSE
    LET v  == Len(h) + 1
        h1 == writeBuffer(createBuffer(h, "vertexBuffer", 24 * 6 * 4,
                                       {"VERTEX", "COPY_DST"}),
                          v, <<"cube", 24 * 6>>)
        x  == Len(h1) + 1
        h2 == writeBuffer(createBuffer(h1, "indexBuffer", 36 * 2,
                                       {"INDEX", "COPY_DST"}),
                          x, <<"cube", 36>>)
        g  == InstancedRendering_generateInstances(
                [p EXCEPT !.vertexBuffer = v, !.indexBuffer = x], h2)
        u  == Len(g.heap) + 1
        h3 == createBuffer(g.heap, "uniformBuffer", 128, {"UNIFORM", "COPY_DST"})
        t  == Len(h3) + 1
        h4 == createTexture(h3, "depthTexture", d.canvasWidth, d.canvasHeight)
    IN  [page |-> [g.page EXCEPT !.uniformBuffer = u, !.depthTexture = t,
                                 !.pipeline = TRUE, !.bindGroup = <<u>>],
         heap |-> h4]

\* The render callback of startRendering(): the depth texture is replaced
\* when the canvas size changed, the uniforms are written, and the pass
\* draws this.instanceCount instances from this.instanceBuffer.
InstancedRendering_render(p, h, time, d) ==
  IF p.context = Null \/ ~p.pipeline \/ p.instanceBuffer = Null
    THEN skipFrame(p, h)
  ELSE
    LET stale == \/ p.depthTexture = Null
                 \/ h[p.depthTexture].size # <<d.canvasWidth, d.canvasHeight>>
        h0 == IF stale /\ p.depthTexture # Null THEN destroy(h, p.depthTexture)
              ELSE h
        h1 == IF stale
                THEN createTexture(h0, "depthTexture", d.canvasWidth,
                                   d.canvasHeight)
              ELSE h
        p1 == IF stale THEN [p EXCEPT !.depthTexture = Len(h1)] ELSE p
        h2 == writeBuffer(h1, p.uniformBuffer,
                          << <<p.spread, <<d.canvasWidth, d.canvasHeight>> >>,
                             time, p.cubeSize, p.rotationSpeed, 0 >>)
    IN  [page |-> p1, heap |-> h2, passes |-> <<>>,
         commands |-> <<drawCommand(p.instanceBuffer, p.instanceCount)>>,
         submits |-> 1]

DataVisualizationInit ==
  [ kind |-> "data-visualization", pointCount |-> 100000,
    pointSize |-> 3000, animationSpeed |-> 500, dataPattern |-> "gaussian",
    pipeline |-> FALSE, vertexBuffer |-> Null, dataBuffer |-> Null,
    uniformBuffer |-> Null, bindGroup |-> <<>>, context |-> Null,
    bufferPointCount |-> 0 ]

\* generateDataPoints(), called by initializePipeline and, through
\* onPointCountChange() and regenerateData(), by the (change) event of the
\* count slider: five floats per point, and the count the buffer was built
\* for is kept in bufferPointCount.
DataVisualization_generateDataPoints(p, h) ==
  IF p.context = Null THEN [page |-> p, heap |-> h]
  ELSE
    LET h0 == IF p.dataBuffer # Null THEN destroy(h, p.dataBuffer) ELSE h
        b  == Len(h0) + 1
        h1 == writeBuffer(createBuffer(h0, "dataBuffer", p.pointCount * 5 * 4,
                                       {"VERTEX", "COPY_DST"}),
                          b, <<p.dataPattern, p.pointCount * 5>>)
    IN  [page |-> [p EXCEPT !.dataBuffer = b,
                            !.bufferPointCount = p.pointCount],
         heap |-> h1]

\* initializePipeline(), called by onContextReady: the quad of six vertices,
\* the data points, the uniforms, the pipeline and its bind group.
DataVisualization_initializePipeline(p, h) ==
  IF p.context = Null THEN [page |-> p, heap |-> h]
  ELSE
    LET v  == Len(h) + 1
        h1 == writeBuffer(createBuffer(h, "vertexBuffer", 12 * 4,
                                       {"VERTEX", "COPY_DST"}),
                          v, <<"quad", 12>>)
        g  == DataVisualization_generateDataPoints(
                [p EXCEPT !.vertexBuffer = v], h1)
        u  == Len(g.heap) + 1
        h2 == createBuffer(g.heap, "uniformBuffer", 32, {"UNIFORM", "COPY_DST"})
    IN  [page |-> [g.page EXCEPT !.uniformBuffer = u, !.pipeline = TRUE,
                                 !.bindGroup = <<u>>],
         heap |-> h2]

\* The render callback of startRendering(): the uniforms are written and the
\* pass draws this.bufferPointCount instances from this.dataBuffer.
DataVisualization_render(p, h, time, d) ==
  IF p.context = Null \/ ~p.pipeline \/ p.dataBuffer = Null
    THEN skipFrame(p, h)
  ELSE [page |-> p,
        heap |-> writeBuffer(h, p.uniformBuffer,
                             <<time, p.pointSize,
                               <<d.canvasWidth, d.canvasHeight>>,
                               p.animationSpeed>>),
        passes |-> <<>>,
        commands |-> <<drawCommand(p.dataBuffer, p.bufferPointCount)>>,
        submits |-> 1]

----------------------------------------------------------------------------
(* A compute demo page from the resolution of requestDevice on: the user   *)
(* moves the controls and presses the buttons, the browser runs frames.    *)

PageKinds == { "game-of-life", "particle-system", "fluid-simulation",
               "rigid-body-physics", "physics-simulation" }

PageInit(kind) ==
  CASE kind = "game-of-life"       -> GameOfLifeInit
    [] kind = "particle-system"    -> ParticleSystemInit
    [] kind = "fluid-simulation"   -> FluidSimulationInit
    [] kind = "rigid-body-physics" -> RigidBodyPhysicsInit
    [] kind = "physics-simulation" -> PhysicsSimulationInit

\* Values of the sizing control of each page: the default and one more.
SizingValues(kind) ==
  CASE kind = "game-of-life"       -> {256, 320}
    [] kind = "particle-system"    -> {50000, 10000}
    [] kind = "fluid-simulation"   -> {128, 64}
    [] kind = "rigid-body-physics" -> {100, 50}
    [] kind = "physics-simulation" -> {32, 40}
    [] kind = "instanced-rendering" -> {10000, 20000}
    [] kind = "data-visualization" -> {100000, 200000}

SimulationSpeeds == {2, 15}

\* The controls that only feed the render callback, with the values the user
\* can give them: the default and one more.  Fractions are in thousandths.
UniformValues(kind) ==
  CASE kind = "game-of-life" ->
         [paused |-> BOOLEAN, simulationSpeed |-> SimulationSpeeds]
    [] kind = "particle-system" ->
         [gravity |-> {500, 1000}, spawnRate |-> {500, 800},
          particleSize |-> {3000, 5000}]
    [] kind = "physics-simulation" ->
         [gravity |-> {500, 1000}, stiffness |-> {800, 500},
          damping |-> {980, 990}, wind |-> {200, 0}]
    [] OTHER -> <<>>

\* A [(ngModel)] control without heap effect that also creates a buffer.
setUniformParameter_Allocates(p, h, name, value) ==
  [page |-> [p EXCEPT ![name] = value],
   heap |-> createBuffer(h, "uniformBuffer", 32, {"UNIFORM", "COPY_DST"})]

\* [(ngModel)] of a control that has no (change) handler writes the field.
setUniformParameter(p, h, name, value) ==
  [page |-> [p EXCEPT ![name] = value], heap |-> h]

\* [(ngModel)] of the sizing control writes the field.
setSizing(p, value) ==
  CASE p.kind = "particle-system"    -> [p EXCEPT !.particleCount = value]
    [] p.kind = "rigid-body-physics" -> [p EXCEPT !.bodyCount = value]
    [] p.kind = "instanced-rendering" -> [p EXCEPT !.instanceCount = value]
    [] p.kind = "data-visualization" -> [p EXCEPT !.pointCount = value]
    [] OTHER                         -> [p EXCEPT !.gridSize = value]

\* onContextReady(ctx): the context is stored and the pipeline is built;
\* startRendering follows in the same task.
initializePipelineOnReady(p, h, ctx) ==
  LET p1 == [p EXCEPT !.context = ctx]
  IN  CASE p.kind = "game-of-life"       -> GameOfLife_initializePipeline(p1, h, FALSE)
        [] p.kind = "particle-system"    -> ParticleSystem_initializePipeline(p1, h)
        [] p.kind = "fluid-simulation"   -> FluidSimulation_initializePipeline(p1, h)
        [] p.kind = "rigid-body-physics" -> RigidBodyPhysics_initializePipeline(p1, h)
        [] p.kind = "physics-simulation" -> PhysicsSimulation_initializePipeline(p1, h)

\* renderFn(time, deltaTime): the render callback the page registered.
renderFn(p, h, time, deltaTime, d) ==
  CASE p.kind = "game-of-life"       -> GameOfLife_render(p, h, time)
    [] p.kind = "particle-system"    -> ParticleSystem_render(p, h, time, d)
    [] p.kind = "fluid-simulation"   -> FluidSimulation_render(p, h, time, deltaTime)
    [] p.kind = "rigid-body-physics" -> RigidBodyPhysics_render(p, h, time, deltaTime, d)
    [] p.kind = "physics-simulation" -> PhysicsSimulation_render(p, h, time, d)
    [] p.kind = "instanced-rendering" -> InstancedRendering_render(p, h, time, d)
    [] p.kind = "data-visualization" -> DataVisualization_render(p, h, time, d)

\* The last two compute passes of the run, oldest first.
lastTwo(steps) ==
  IF Len(steps) > 2 THEN SubSeq(steps, Len(steps) - 1, Len(steps)) ELSE steps

\* adapter.requestDevice resolves for the demo: createContext configures the
\* canvas, initializeWebGPU stores the context and emits contextReady, the
\* page builds its pipeline and starts the render loop.
ResContextReady ==
  /\ calls["demo"].pc = "device"
  /\ LET d  == gpu.devices + 1
         cc == createContextResume(deviceResolved(svc, d), d, "ok")
         w  == initializeWebGPUResume(comp, cc.ret, cc.ctx, cc.svc.error)
         e  == emitContextReady(owner, w.comp, raf, cc.ctx)
         b  == initializePipelineOnReady(page, heap, cc.ctx)
     IN  /\ gpu' = [gpu EXCEPT !.devices = d, !.lostHandlers = @ \cup {d}]
         /\ svc' = cc.svc
         /\ calls' = [calls EXCEPT !["demo"] = [pc |-> "done", tier |-> 0, ret |-> d]]
         /\ comp' = e.comp
         /\ raf' = e.raf
         /\ owner' = e.owner
         /\ hist' = [hist EXCEPT !.emitted = TRUE]
         /\ page' = b.page
         /\ heap' = b.heap
  /\ UNCHANGED <<dom, log>>

\* The user moves a control bound with [(ngModel)]: the sizing control of
\* the page, or the speed slider or the pause box of the Game of Life.
ResSetParameter ==
  /\ \/ \E value \in SizingValues(page.kind) :
          /\ setSizing(page, value) # page
          /\ page' = setSizing(page, value)
          /\ heap' = heap
     \/ /\ page.kind = "game-of-life"
        /\ \E name \in DOMAIN UniformValues(page.kind) :
             \E value \in UniformValues(page.kind)[name] \ {page[name]} :
               LET b == setUniformParameter(page, heap, name, value)
               IN  page' = b.page /\ heap' = b.heap
  /\ UNCHANGED <<gpu, svc, calls, comp, dom, raf, owner, hist, log>>

\* The (change) event of the sizing control: onGridSizeChange(),
\* onParticleCountChange() or onBodyCountChange().
ResSizeChange ==
  /\ log.rebuilds < MaxRebuilds
  /\ LET b == CASE page.kind = "game-of-life" ->
                     GameOfLife_restart(page, heap, FALSE)
                [] page.kind = "particle-system" ->
                     ParticleSystem_initializePipeline(page, heap)
                [] page.kind = "fluid-simulation" ->
                     FluidSimulation_initializePipeline(page, heap)
                [] page.kind = "rigid-body-physics" ->
                     RigidBodyPhysics_initializePipeline(page, heap)
                [] page.kind = "physics-simulation" ->
                     PhysicsSimulation_initializePipeline(page, heap)
     IN  page' = b.page /\ heap' = b.heap
  /\ log' = [log EXCEPT !.rebuilds = @ + 1]
  /\ UNCHANGED <<gpu, svc, calls, comp, dom, raf, owner, hist>>

\* A click on a reset button: randomize() or clear(), resetParticles(), or
\* resetSimulation().
ResReset ==
  /\ log.rebuilds < MaxRebuilds
  /\ \E clear \in BOOLEAN :
       /\ clear => page.kind = "game-of-life"
       /\ LET b == CASE page.kind = "game-of-life" ->
                          GameOfLife_restart(page, heap, clear)
                     [] page.kind = "particle-system" ->
                          ParticleSystem_initializePipeline(page, heap)
                     [] page.kind = "fluid-simulation" ->
                          FluidSimulation_initializeBuffers(page, heap)
                     [] page.kind = "rigid-body-physics" ->
                          RigidBodyPhysics_initializeBuffers(page, heap)
                     [] page.kind = "physics-simulation" ->
                          PhysicsSimulation_initializePipeline(page, heap)
          IN  page' = b.page /\ heap' = b.heap
  /\ log' = [log EXCEPT !.rebuilds = @ + 1]
  /\ UNCHANGED <<gpu, svc, calls, comp, dom, raf, owner, hist>>

\* An animation frame of the page: `loop` updates the clock, runs the page's
\* render callback and requests the next frame.
ResFrame ==
  \E id \in raf.pending, dt \in FrameIntervals :
    /\ raf.nextId <= MaxFrames
    /\ LET time == raf.now + dt
           k == loopClock(comp, time)
           f == renderFn(page, heap, time, k.deltaTime, dom)
           n == loopReschedule(k.comp,
                  [raf EXCEPT !.pending = @ \ {id}, !.now = time])
       IN  /\ comp' = n.comp
           /\ raf' = n.raf
           /\ page' = f.page
           /\ heap' = f.heap
           /\ log' = [log EXCEPT !.frames = @ + 1,
                                 !.steps = lastTwo(@ \o f.passes),
                                 !.frame = [commands |-> f.commands,
                                            submits |-> f.submits]]
    /\ UNCHANGED <<gpu, svc, calls, dom, owner, hist>>

ResInit ==
  /\ gpu = [ present |-> TRUE, devices |-> 0, lostHandlers |-> {} ]
  /\ svc = [ServiceInit EXCEPT !.adapter = 1, !.adapterInfo = 1,
                               !.isSupported = "true"]
  /\ calls = [c \in Callers |->
                IF c = "demo" THEN [pc |-> "device", tier |-> 0, ret |-> Null]
                ELSE [pc |-> "idle", tier |-> 0, ret |-> Null]]
  /\ comp = initializeWebGPU(ComponentInit)
  /\ dom = [ rectWidth |-> 800, rectHeight |-> 600, devicePixelRatio |-> <<2, 1>>,
             canvasWidth |-> 1600, canvasHeight |-> 1200 ]
  /\ raf = RafInit
  /\ \E kind \in PageKinds :
       /\ owner = OwnerInit(kind)
       /\ page = PageInit(kind)
  /\ hist = HistInit
  /\ heap = <<>>
  /\ log = LogInit

ResNext ==
  \/ ResContextReady
  \/ ResSetParameter
  \/ ResSizeChange
  \/ ResReset
  \/ ResFrame
  \/ ContainerResize

SpecRes == ResInit /\ [][ResNext]_vars

----------------------------------------------------------------------------
(* A running compute demo whose user only moves the controls that feed the *)
(* render callback: no sizing change, no reset.                            *)

\* The user moves a control that has no (change) handler.
ParamSet ==
  /\ \E name \in DOMAIN UniformValues(page.kind) :
       \E value \in UniformValues(page.kind)[name] \ {page[name]} :
         LET b == setUniformParameter(page, heap, name, value)
         IN  page' = b.page /\ heap' = b.heap
  /\ UNCHANGED <<gpu, svc, calls, comp, dom, raf, owner, hist, log>>

\* The state in which onContextReady leaves a page: pipeline built, first
\* frame requested.
ParamInit ==
  /\ gpu = [ present |-> TRUE, devices |-> 1, lostHandlers |-> {1} ]
  /\ svc = [ServiceInit EXCEPT !.adapter = 1, !.adapterInfo = 1, !.device = 1,
                               !.isSupported = "true", !.isInitialized = TRUE]
  /\ calls = [c \in Callers |->
                IF c = "demo" THEN [pc |-> "done", tier |-> 0, ret |-> 1]
                ELSE [pc |-> "idle", tier |-> 0, ret |-> Null]]
  /\ dom = [ rectWidth |-> 800, rectHeight |-> 600, devicePixelRatio |-> <<2, 1>>,
             canvasWidth |-> 1600, canvasHeight |-> 1200 ]
  /\ hist = [HistInit EXCEPT !.emitted = TRUE]
  /\ log = LogInit
  /\ \E kind \in {"game-of-life", "particle-system", "physics-simulation"} :
       LET b == initializePipelineOnReady(PageInit(kind), <<>>, 1)
           e == emitContextReady(OwnerInit(kind), ReadyComponent, RafInit, 1)
       IN  /\ page = b.page
           /\ heap = b.heap
           /\ owner = e.owner
           /\ comp = e.comp
           /\ raf = e.raf

ParamNext ==
  \/ ParamSet
  \/ ResFrame

SpecParam == ParamInit /\ [][ParamNext]_vars

----------------------------------------------------------------------------
(* The running fluid demo when a device call of a rebuild throws.          *)

\* The user drags the grid-size slider: [(ngModel)] writes gridSize on the
\* input event, before the (change) event of the release.
FaultSetSize ==
  /\ \E value \in SizingValues(page.kind) :
       /\ setSizing(page, value) # page
       /\ page' = setSizing(page, value)
  /\ UNCHANGED <<gpu, svc, calls, comp, dom, raf, owner, hist, heap, log>>

\* The (change) event of the slider, onGridSizeChange(), when a device call
\* throws: initializePipeline() is called without await and without a
\* catch, so its rejection reaches no handler of the page; nothing writes
\* the error signal of the demo.  gridSize is the value the slider holds.
FaultRebuild ==
  /\ log.rebuilds < MaxRebuilds
  /\ page.context # Null
  /\ \E at \in FaultPoints :
       LET b == FluidSimulation_initializePipeline_Throws(page, heap, at)
       IN  page' = b.page /\ heap' = b.heap
  /\ log' = [log EXCEPT !.rebuilds = @ + 1, !.rejected = @ + 1]
  /\ UNCHANGED <<gpu, svc, calls, comp, dom, raf, owner, hist>>

FaultInit ==
  /\ gpu = [ present |-> TRUE, devices |-> 1, lostHandlers |-> {1} ]
  /\ svc = [ServiceInit EXCEPT !.adapter = 1, !.adapterInfo = 1, !.device = 1,
                               !.isSupported = "true", !.isInitialized = TRUE]
  /\ calls = [c \in Callers |->
                IF c = "demo" THEN [pc |-> "done", tier |-> 0, ret |-> 1]
                ELSE [pc |-> "idle", tier |-> 0, ret |-> Null]]
  /\ dom = [ rectWidth |-> 800, rectHeight |-> 600, devicePixelRatio |-> <<2, 1>>,
             canvasWidth |-> 1600, canvasHeight |-> 1200 ]
  /\ hist = [HistInit EXCEPT !.emitted = TRUE]
  /\ log = LogInit
  /\ LET b == initializePipelineOnReady(PageInit("fluid-simulation"), <<>>, 1)
         e == emitContextReady(OwnerInit("fluid-simulation"), ReadyComponent,
                               RafInit, 1)
     IN  /\ page = b.page
         /\ heap = b.heap
         /\ owner = e.owner
         /\ comp = e.comp
         /\ raf = e.raf

FaultNext ==
  \/ FaultSetSize
  \/ FaultRebuild
  \/ ResSizeChange
  \/ ResFrame

SpecFault == FaultInit /\ [][FaultNext]_vars

----------------------------------------------------------------------------
(* Pages whose shader text depends on a selected variant: the shader       *)
(* playground (selectedPreset), the fractal renderer (fractalType) and the *)
(* neural network (pattern).  `compiled` is the variant whose code was     *)
(* interpolated into the shader module of the current pipeline.            *)

VariantKinds == {"shader-playground", "fractal-renderer", "neural-network"}

Variants(kind) ==
  CASE kind = "shader-playground" -> {"plasma", "waves", "tunnel"}
    [] kind = "fractal-renderer"  -> {"mandelbrot", "julia", "burning_ship"}
    [] kind = "neural-network"    -> {"circle", "xor", "spiral"}

MaxGestures == 2

\* JavaScript numbers of the fractal view are kept as exact fractions
\* <<numerator, denominator>> in lowest terms with a positive denominator.
RECURSIVE gcd(_, _)
gcd(a, b) == IF b = 0 THEN a ELSE gcd(b, a % b)

fraction(n, d) ==
  LET g == gcd(IF n < 0 THEN -n ELSE n, d)
  IN  <<n \div g, d \div g>>

\* a * b
times(a, b) == fraction(a[1] * b[1], a[2] * b[2])

\* a + b
plus(a, b) == fraction(a[1] * b[2] + b[1] * a[2], a[2] * b[2])

\* Values of the hidden-size control of the neural network.
HiddenSizes == {16, 32}

\* clientX and clientY of a mouse event.
MousePositions == { <<0, 0>>, <<160, -160>> }

\* The page after construction.
VariantPageInit(kind) ==
  CASE kind = "shader-playground" ->
         [ kind |-> kind, selected |-> "plasma", compiled |-> "",
           pipeline |-> FALSE, context |-> Null ]
    [] kind = "fractal-renderer" ->
         [ kind |-> kind, selected |-> "mandelbrot", compiled |-> "",
           pipeline |-> FALSE, context |-> Null,
           zoom |-> <<1, 1>>, centerX |-> <<-1, 2>>, centerY |-> <<0, 1>>,
           isDragging |-> FALSE, lastMouseX |-> 0, lastMouseY |-> 0 ]
    [] kind = "neural-network" ->
         [ kind |-> kind, selected |-> "circle", compiled |-> "",
           pipeline |-> FALSE, context |-> Null,
           hiddenSize |-> 16, isTraining |-> TRUE,
           epoch |-> 0, weights |-> 0 ]

\* initializePipeline(): getShaderCode() / getFractalCode() /
\* getPatternFunction() is interpolated into the shader source.
Variant_initializePipeline(p) ==
  IF p.context = Null THEN p
  ELSE [p EXCEPT !.compiled = p.selected, !.pipeline = TRUE]

\* onContextReady(ctx) of the three pages.
Variant_onContextReady(p, ctx) ==
  LET p1 == [p EXCEPT !.context = ctx]
      p2 == IF p.kind = "neural-network" THEN [p1 EXCEPT !.weights = @ + 1]
            ELSE p1
  IN  Variant_initializePipeline(p2)

\* ShaderPlaygroundComponent.onPresetChange()
ShaderPlayground_onPresetChange(p) ==
  IF p.context # Null THEN Variant_initializePipeline(p) ELSE p

\* FractalRendererComponent.resetView()
FractalRenderer_resetView(p) ==
  [p EXCEPT !.zoom = <<1, 1>>,
            !.centerX = IF p.selected = "mandelbrot" THEN <<-1, 2>>
                        ELSE <<0, 1>>,
            !.centerY = <<0, 1>>]

\* FractalRendererComponent.onFractalChange(): resetView().
FractalRenderer_onFractalChange(p) == FractalRenderer_resetView(p)

\* FractalRendererComponent.onWheel(event): zoomFactor is 0.9 when
\* event.deltaY > 0 and 1.1 otherwise.
FractalRenderer_onWheel(p, deltaY) ==
  LET zoomFactor == IF deltaY > 0 THEN <<9, 10>> ELSE <<11, 10>>
  IN  [p EXCEPT !.zoom = times(@, zoomFactor)]

\* FractalRendererComponent.onMouseDown(event)
FractalRenderer_onMouseDown(p, clientX, clientY) ==
  [p EXCEPT !.isDragging = TRUE, !.lastMouseX = clientX,
            !.lastMouseY = clientY]

\* FractalRendererComponent.onMouseUp(), bound to window:mouseup.
FractalRenderer_onMouseUp(p) == [p EXCEPT !.isDragging = FALSE]

\* FractalRendererComponent.onMouseMove(event), bound to window:mousemove:
\* scale = 3.0 / this.zoom / this.context.canvas.width.
FractalRenderer_onMouseMove(p, clientX, clientY, canvasWidth) ==
  IF ~p.isDragging \/ p.context = Null THEN p
  ELSE
    LET dx == clientX - p.lastMouseX
        dy == clientY - p.lastMouseY
        scale == fraction(3 * p.zoom[2], p.zoom[1] * canvasWidth)
    IN  [p EXCEPT !.centerX = plus(@, times(<<-dx, 1>>, scale)),
                  !.centerY = plus(@, times(<<dy, 1>>, scale)),
                  !.lastMouseX = clientX,
                  !.lastMouseY = clientY]

\* NeuralNetworkComponent.onPatternChange(): initializeWeights() draws new
\* weights, epoch and loss are reset.
NeuralNetwork_onPatternChange(p) ==
  [p EXCEPT !.weights = @ + 1, !.epoch = 0]

\* NeuralNetworkComponent.resetNetwork(): the same three statements.
NeuralNetwork_resetNetwork(p) ==
  [p EXCEPT !.weights = @ + 1, !.epoch = 0]

\* NeuralNetworkComponent.onNetworkChange(): new weights, epoch and loss
\* reset, and with a context initializePipeline(), which has no await.
NeuralNetwork_onNetworkChange(p) ==
  LET p1 == [p EXCEPT !.weights = @ + 1, !.epoch = 0]
  IN  IF p1.context # Null THEN Variant_initializePipeline(p1) ELSE p1

\* NeuralNetworkComponent.trainStep()
NeuralNetwork_trainStep(p) ==
  IF ~p.isTraining THEN p ELSE [p EXCEPT !.epoch = @ + 1]

\* The render callback: the neural network runs trainStep() ten times, the
\* fractal renderer and the playground only draw; the frame draws with
\* this.pipeline.
Variant_render(p) ==
  LET RECURSIVE train(_, _)
      train(q, i) == IF i < 10 THEN train(NeuralNetwork_trainStep(q), i + 1)
                     ELSE q
  IN  IF p.context = Null \/ ~p.pipeline
        THEN [page |-> p, commands |-> <<>>, submits |-> 0]
      ELSE [page |-> IF p.kind = "neural-network" THEN train(p, 0) ELSE p,
            commands |-> << [pass |-> "render", variant |-> p.compiled] >>,
            submits |-> 1]

\* The user picks another option of the <select>: ngModel writes the field
\* and the (change) handler of the page runs in the same event.
VariantChange ==
  /\ \E v \in Variants(page.kind) \ {page.selected} :
       LET p1 == [page EXCEPT !.selected = v]
       IN  page' = CASE page.kind = "shader-playground" ->
                         ShaderPlayground_onPresetChange(p1)
                     [] page.kind = "fractal-renderer" ->
                         FractalRenderer_onFractalChange(p1)
                     [] page.kind = "neural-network" ->
                         NeuralNetwork_onPatternChange(p1)
  /\ log' = [log EXCEPT !.rebuilds = @ + 1]
  /\ log.rebuilds < MaxRebuilds
  /\ UNCHANGED <<gpu, svc, calls, comp, dom, raf, owner, hist, heap>>

\* The hidden-size control of the neural network writes hiddenSize.
VariantSetHiddenSize ==
  /\ page.kind = "neural-network"
  /\ \E hiddenSize \in HiddenSizes \ {page.hiddenSize} :
       page' = [page EXCEPT !.hiddenSize = hiddenSize]
  /\ UNCHANGED <<gpu, svc, calls, comp, dom, raf, owner, hist, heap, log>>

\* onNetworkChange() of the neural network runs on the hiddenSize the page
\* holds; it does not write the field.
VariantNetworkChange ==
  /\ page.kind = "neural-network"
  /\ log.rebuilds < MaxRebuilds
  /\ page' = NeuralNetwork_onNetworkChange(page)
  /\ log' = [log EXCEPT !.rebuilds = @ + 1]
  /\ UNCHANGED <<gpu, svc, calls, comp, dom, raf, owner, hist, heap>>

\* A click on the reset button: resetNetwork() of the neural network,
\* resetView() of the fractal renderer.
VariantReset ==
  /\ log.rebuilds < MaxRebuilds
  /\ \/ /\ page.kind = "neural-network"
        /\ page' = NeuralNetwork_resetNetwork(page)
     \/ /\ page.kind = "fractal-renderer"
        /\ page' = FractalRenderer_resetView(page)
  /\ log' = [log EXCEPT !.rebuilds = @ + 1]
  /\ UNCHANGED <<gpu, svc, calls, comp, dom, raf, owner, hist, heap>>

\* The training control of the neural network writes isTraining.
VariantTraining ==
  /\ page.kind = "neural-network"
  /\ page' = [page EXCEPT !.isTraining = ~@]
  /\ UNCHANGED <<gpu, svc, calls, comp, dom, raf, owner, hist, heap, log>>

\* A wheel notch over the fractal canvas.
VariantZoom ==
  /\ page.kind = "fractal-renderer"
  /\ log.gestures < MaxGestures
  /\ \E deltaY \in {-100, 100} :
       page' = FractalRenderer_onWheel(page, deltaY)
  /\ log' = [log EXCEPT !.gestures = @ + 1]
  /\ UNCHANGED <<gpu, svc, calls, comp, dom, raf, owner, hist, heap>>

\* A mouse event of the fractal page: mousedown on the canvas, mousemove or
\* mouseup anywhere in the window.
VariantMouse ==
  /\ page.kind = "fractal-renderer"
  /\ \/ /\ \E pos \in MousePositions :
             page' = FractalRenderer_onMouseDown(page, pos[1], pos[2])
        /\ log' = log
     \/ /\ log.gestures < MaxGestures
        /\ \E pos \in MousePositions :
             page' = FractalRenderer_onMouseMove(page, pos[1], pos[2],
                                                 dom.canvasWidth)
        /\ log' = [log EXCEPT !.gestures = @ + 1]
     \/ /\ page' = FractalRenderer_onMouseUp(page)
        /\ log' = log
  /\ UNCHANGED <<gpu, svc, calls, comp, dom, raf, owner, hist, heap>>

\* An animation frame of the page.
VariantFrame ==
  \E id \in raf.pending, dt \in FrameIntervals :
    /\ raf.nextId <= MaxFrames
    /\ LET time == raf.now + dt
           k == loopClock(comp, time)
           f == Variant_render(page)
           n == loopReschedule(k.comp,
                  [raf EXCEPT !.pending = @ \ {id}, !.now = time])
       IN  /\ comp' = n.comp
           /\ raf' = n.raf
           /\ page' = f.page
           /\ log' = [log EXCEPT !.frames = @ + 1,
                                 !.frame = [commands |-> f.commands,
                                            submits |-> f.submits]]
    /\ UNCHANGED <<gpu, svc, calls, dom, owner, hist, heap>>

VariantInit ==
  /\ gpu = [ present |-> TRUE, devices |-> 1, lostHandlers |-> {1} ]
  /\ svc = [ServiceInit EXCEPT !.adapter = 1, !.adapterInfo = 1, !.device = 1,
                               !.isSupported = "true", !.isInitialized = TRUE]
  /\ calls = [c \in Callers |->
                IF c = "demo" THEN [pc |-> "done", tier |-> 0, ret |-> 1]
                ELSE [pc |-> "idle", tier |-> 0, ret |-> Null]]
  /\ dom = [ rectWidth |-> 800, rectHeight |-> 600, devicePixelRatio |-> <<2, 1>>,
             canvasWidth |-> 1600, canvasHeight |-> 1200 ]
  /\ hist = [HistInit EXCEPT !.emitted = TRUE]
  /\ log = LogInit
  /\ heap = <<>>
  /\ owner = [OwnerInit("game-of-life") EXCEPT !.context = 1, !.pipeline = TRUE,
                                               !.pc = "rendering"]
  /\ LET s == startRenderLoop(ReadyComponent, RafInit)
     IN  comp = s.comp /\ raf = s.raf
  /\ \E kind \in VariantKinds :
       page = Variant_onContextReady(VariantPageInit(kind), 1)

VariantNext ==
  \/ VariantChange
  \/ VariantSetHiddenSize
  \/ VariantNetworkChange
  \/ VariantReset
  \/ VariantTraining
  \/ VariantZoom
  \/ VariantMouse
  \/ VariantFrame

SpecVariant == VariantInit /\ [][VariantNext]_vars

----------------------------------------------------------------------------
(* A running page that draws instances: the user drags the count slider,   *)
(* releases it, and the browser runs frames.                               *)

DrawKinds == { "instanced-rendering", "particle-system",
               "rigid-body-physics", "data-visualization" }

\* onContextReady(ctx) of a page that draws instances: the context is
\* stored and the pipeline is built.
Draw_onContextReady(p, h, ctx, d) ==
  LET p1 == [p EXCEPT !.context = ctx]
  IN  CASE p.kind = "instanced-rendering" ->
             InstancedRendering_initializePipeline(p1, h, d)
        [] p.kind = "particle-system" ->
             ParticleSystem_initializePipeline(p1, h)
        [] p.kind = "rigid-body-physics" ->
             RigidBodyPhysics_initializePipeline(p1, h)
        [] p.kind = "data-visualization" ->
             DataVisualization_initializePipeline(p1, h)

\* The user drags the count slider: [(ngModel)] writes the field on every
\* input event, before the (change) event of the release.
DrawSetCount ==
  /\ \E value \in SizingValues(page.kind) :
       /\ setSizing(page, value) # page
       /\ page' = setSizing(page, value)
  /\ UNCHANGED <<gpu, svc, calls, comp, dom, raf, owner, hist, heap, log>>

\* The (change) event of the count slider: onInstanceCountChange(),
\* onParticleCountChange(), onBodyCountChange() or onPointCountChange().
DrawCountChange ==
  /\ log.rebuilds < MaxRebuilds
  /\ LET b == CASE page.kind = "instanced-rendering" ->
                     InstancedRendering_generateInstances(page, heap)
                [] page.kind = "particle-system" ->
                     ParticleSystem_initializePipeline(page, heap)
                [] page.kind = "rigid-body-physics" ->
                     RigidBodyPhysics_initializePipeline(page, heap)
                [] page.kind = "data-visualization" ->
                     IF page.context # Null
                       THEN DataVisualization_generateDataPoints(page, heap)
                     ELSE [page |-> page, heap |-> heap]
     IN  page' = b.page /\ heap' = b.heap
  /\ log' = [log EXCEPT !.rebuilds = @ + 1]
  /\ UNCHANGED <<gpu, svc, calls, comp, dom, raf, owner, hist>>

\* The state in which onContextReady leaves a page: pipeline built, first
\* frame requested.
DrawInit ==
  /\ gpu = [ present |-> TRUE, devices |-> 1, lostHandlers |-> {1} ]
  /\ svc = [ServiceInit EXCEPT !.adapter = 1, !.adapterInfo = 1, !.device = 1,
                               !.isSupported = "true", !.isInitialized = TRUE]
  /\ calls = [c \in Callers |->
                IF c = "demo" THEN [pc |-> "done", tier |-> 0, ret |-> 1]
                ELSE [pc |-> "idle", tier |-> 0, ret |-> Null]]
  /\ dom = [ rectWidth |-> 800, rectHeight |-> 600, devicePixelRatio |-> <<2, 1>>,
             canvasWidth |-> 1600, canvasHeight |-> 1200 ]
  /\ hist = [HistInit EXCEPT !.emitted = TRUE]
  /\ log = LogInit
  /\ \E kind \in DrawKinds :
       LET p0 == CASE kind = "instanced-rendering" -> InstancedRenderingInit
                   [] kind = "particle-system"     -> ParticleSystemInit
                   [] kind = "rigid-body-physics"  -> RigidBodyPhysicsInit
                   [] kind = "data-visualization"  -> DataVisualizationInit
           b == Draw_onContextReady(p0, <<>>, 1, dom)
           e == emitContextReady(OwnerInit(kind), ReadyComponent, RafInit, 1)
       IN  /\ page = b.page
           /\ heap = b.heap
           /\ owner = e.owner
           /\ comp = e.comp
           /\ raf = e.raf

DrawNext ==
  \/ DrawSetCount
  \/ DrawCountChange
  \/ ResFrame
  \/ ContainerResize

SpecDraw == DrawInit /\ [][DrawNext]_vars

----------------------------------------------------------------------------
(* Properties                                                              *)

Contains(message, part) == \E i \in DOMAIN message : message[i] = part

\* C1: after ngOnDestroy, in whichever lifecycle state it ran, the render
\* callback is never invoked again and no animation frame of the component
\* is or becomes scheduled.
C1_NoFrameAfterDestroy ==
  comp.destroyed => (raf.pending = {} /\ ~hist.frameAfterDestroy)

\* C2: when ngOnDestroy ran while createContext was pending, the later
\* resolution is a no-op: context stays null, loading and error keep their
\* values, contextReady is not emitted and onContextReady does not run.
C2_LateResolutionIsNoOp ==
  hist.destroyedWhilePending =>
    /\ comp.context = Null
    /\ comp.loading
    /\ comp.error = NoMessage
    /\ ~hist.emitted
    /\ owner.pc = "idle"

\* C3: after ngOnDestroy, in any lifecycle state, the ResizeObserver is
\* disconnected and a container size change no longer runs handleResize.
C3_ObserverReleased ==
  comp.destroyed =>
    (comp.resizeObserver # "observing" /\ ~hist.resizeAfterDestroy)

\* The container changed its size after the unmount and the canvas was left
\* alone.
C3_Witness ==
  /\ comp.destroyed
  /\ comp.resizeObserver = "disconnected"
  /\ handleResize(dom) # dom

\* C4: within one mount the component only moves Loading->Ready or
\* Loading->Error: loading never returns to true, a context and an error are
\* never held together, and once Loading is left neither the error nor the
\* context changes again (an error is never cleared and never becomes Ready).
C4_LifecycleTransitions ==
  /\ [](~(comp.context # Null /\ comp.error # NoMessage))
  /\ [][ /\ (comp.loading' => comp.loading)
         /\ (~comp.loading =>
               (comp.error' = comp.error /\ comp.context' = comp.context))
         /\ (comp.error # NoMessage => ~Ready(comp')) ]_vars

\* A mount that ended in Error after the device was acquired.
C4_Witness ==
  /\ comp.error = ErrNoCanvasContext
  /\ ~comp.loading
  /\ svc.device # Null

\* C5: every acquisition that fails (capability absent, no adapter,
\* requestDevice rejecting, getContext returning null, configure throwing)
\* leaves the component with loading = false and a non-empty error.
C5_FailureSurfaces ==
  (calls["demo"].pc = "done" /\ comp.context = Null) =>
    (~comp.loading /\ comp.error # NoMessage)

\* C6: when the device's loss notification fires while the demo is Ready, the
\* demo leaves Ready, its error contains the loss reason and no frame stays
\* scheduled.
C6_LossLeavesReady ==
  hist.lostWhileReady # NoMessage =>
    /\ ~Ready(comp)
    /\ Contains(comp.error, hist.lostWhileReady[1])
    /\ raf.pending = {}

\* C7: after stopRenderLoop returns, between two frames or from inside the
\* running render callback, no frame is scheduled until startRenderLoop is
\* called again.
C7_StopPreventsScheduling ==
  hist.stoppedSince => raf.pending = {}

\* C8: stopRenderLoop is idempotent and safe at any time: from every state
\* the loop can be in, a second call changes nothing the first call left,
\* a call with no loop started changes nothing at all, one call leaves
\* animationFrameId null and nothing scheduled, and no frame is cancelled
\* twice.
C8_StopIdempotent ==
  LET once  == stopRenderLoop(comp, raf)
      twice == stopRenderLoop(once.comp, once.raf)
  IN  /\ twice = once
      /\ once.comp.animationFrameId = Null
      /\ once.raf.pending = {}
      /\ (comp.animationFrameId = Null => once = [comp |-> comp, raf |-> raf])
      /\ ~twice.raf.cancelledTwice
      /\ (hist.stopsInRow > 0 =>
            (comp.animationFrameId = Null /\ raf.pending = {}))

\* The buffers the page's fields hold.
heldBuffers(p) ==
  LET Elems(t) == {t[i] : i \in DOMAIN t}
  IN  CASE p.kind = "game-of-life" ->
             Elems(p.cellBuffers) \cup {p.uniformBuffer}
        [] p.kind = "particle-system" ->
             Elems(p.particleBuffers) \cup {p.uniformBuffer}
        [] p.kind = "fluid-simulation" ->
             Elems(p.velocityBuffers) \cup Elems(p.densityBuffers)
               \cup Elems(p.colorBuffers) \cup {p.uniformBuffer}
        [] p.kind = "rigid-body-physics" ->
             Elems(p.positionBuffers) \cup Elems(p.velocityBuffers)
               \cup {p.uniformBuffer, p.indexBuffer, p.vertexBuffer, p.mvpBuffer}
        [] p.kind = "physics-simulation" ->
             Elems(p.positionBuffers)
               \cup {p.prevPositionBuffer, p.uniformBuffer, p.indexBuffer,
                     p.mvpBuffer}
        [] OTHER -> {}

\* The bindings a compute shader reads as the state of the previous step and
\* the bindings it writes as the state of the next step; the cloth shader
\* reads and writes prevPos, binding 2, in place.
sourceBindings(kind) ==
  CASE kind = "game-of-life"       -> {0}
    [] kind = "particle-system"    -> {0}
    [] kind = "fluid-simulation"   -> {1, 3, 5}
    [] kind = "rigid-body-physics" -> {1, 2}
    [] kind = "physics-simulation" -> {0, 2}

destinationBindings(kind) ==
  CASE kind = "game-of-life"       -> {1}
    [] kind = "particle-system"    -> {1}
    [] kind = "fluid-simulation"   -> {2, 4, 6}
    [] kind = "rigid-body-physics" -> {3, 4}
    [] kind = "physics-simulation" -> {1, 2}

Source(kind, entries) == [b \in sourceBindings(kind) |-> entries[b + 1]]
Destination(kind, entries) == [b \in destinationBindings(kind) |-> entries[b + 1]]
Buffers(f) == {f[b] : b \in DOMAIN f}

\* The source of t, binding by binding in order, is the destination of s.
RolesSwapped(kind, s, t) ==
  /\ Buffers(Source(kind, t.entries)) = Buffers(Destination(kind, s.entries))
  /\ Buffers(Destination(kind, t.entries)) = Buffers(Source(kind, s.entries))
  /\ \A b \in sourceBindings(kind) :
       \E c \in destinationBindings(kind) :
         /\ t.entries[b + 1] = s.entries[c + 1]
         /\ t.entries[c + 1] = s.entries[b + 1]

\* C9: in the Game of Life, cloth and fluid demos every buffer a rebuild
\* replaced (storage, uniform, index or auxiliary) was destroyed exactly once
\* and no buffer was destroyed twice: a buffer that a field of the page no
\* longer holds has one destroy call.
C9_RebuildDestroysPrevious ==
  page.kind \in {"game-of-life", "physics-simulation", "fluid-simulation"} =>
    \A b \in DOMAIN heap :
      /\ heap[b].destroyed <= 1
      /\ (b \notin heldBuffers(page) /\ heap[b].label # "renderUniformBuffer")
           => heap[b].destroyed = 1

\* C10: in the double-buffered simulations, step k uses compute bind group
\* k mod 2, the buffers that group reads and the buffers it writes are
\* different allocations, and from step k to step k+1 the group index
\* alternates and, the bind groups being the same, every buffer read in one
\* step is the buffer written in the other.
C10_PingPongAlternates ==
  page.kind \in {"game-of-life", "particle-system", "fluid-simulation",
                 "rigid-body-physics"} =>
    /\ \A i \in DOMAIN log.steps :
         LET s == log.steps[i]
         IN  /\ s.index = s.k % 2
             /\ s.entries = s.groups[(s.k % 2) + 1]
             /\ Buffers(Source(page.kind, s.entries))
                  \cap Buffers(Destination(page.kind, s.entries)) = {}
    /\ Len(log.steps) = 2 =>
         LET s == log.steps[1]
             t == log.steps[2]
         IN  /\ t.k = s.k + 1
             /\ t.index # s.index
             /\ (t.groups = s.groups => RolesSwapped(page.kind, s, t))

\* Two consecutive steps ran on the same bind groups after a rebuild, the
\* later one with group 1.
C10_Witness ==
  /\ page.kind \in {"game-of-life", "particle-system", "fluid-simulation",
                    "rigid-body-physics"}
  /\ Len(log.steps) = 2
  /\ log.steps[1].groups = log.steps[2].groups
  /\ log.steps[2].index = 1
  /\ log.rebuilds > 0

\* The compute passes and the render passes of the last frame's command
\* buffer, by position.
PassesOf(kinds) ==
  {i \in DOMAIN log.frame.commands : log.frame.commands[i].pass \in kinds}

\* C11: in every frame that runs a compute pass, also after a reset or a
\* sizing rebuild, the buffers the render pass of that frame reads are
\* buffers the compute pass of that frame wrote.
C11_RenderReadsComputeOutput ==
  \A i \in PassesOf({"compute"}), j \in PassesOf({"render"}) :
    LET written == Buffers(Destination(page.kind, log.frame.commands[i].entries))
        read    == log.frame.commands[j].reads
    IN  read # {} /\ read \subseteq written

\* C12: in a frame of a compute demo that runs a compute pass, the compute
\* pass and the constraint passes (five for cloth, none elsewhere) come
\* before the one render pass in the command buffer, and the frame makes a
\* single queue.submit.
C12_ComputeBeforeRender ==
  PassesOf({"compute"}) # {} =>
    LET cs == log.frame.commands
    IN  /\ log.frame.submits = 1
        /\ PassesOf({"render"}) = {Len(cs)}
        /\ PassesOf({"compute"}) = {1}
        /\ PassesOf({"constraint"}) = 2 .. (Len(cs) - 1)
        /\ Len(cs) = IF page.kind = "physics-simulation" THEN 7 ELSE 2

\* The cloth page ran a second frame after a rebuild: one physics pass, five
\* constraint passes and the render pass.
C12_Witness ==
  /\ page.kind = "physics-simulation"
  /\ Len(log.frame.commands) = 7
  /\ log.frames = 2
  /\ log.rebuilds = 1

\* C13: a change of a control that only feeds uniform values (Game of Life
\* speed and pause; particle gravity, spawn rate and size; cloth gravity,
\* stiffness, damping and wind) changes that field alone: no buffer is
\* created, destroyed or written and no pipeline or bind group changes; the
\* uniform buffer takes the value with the write of the next frame.
C13_UniformOnlyParameters ==
  [][ /\ \A name \in DOMAIN UniformValues(page.kind) :
           page'[name] # page[name] =>
             /\ heap' = heap
             /\ page' = [page EXCEPT ![name] = page'[name]]
      /\ (log'.frames # log.frames /\ page.kind = "particle-system") =>
           /\ heap'[page.uniformBuffer].data[2] = page.gravity
           /\ heap'[page.uniformBuffer].data[3] = page.spawnRate
           /\ heap'[page.uniformBuffer].data[5] = page.particleSize
      /\ (log'.frames # log.frames /\ page.kind = "physics-simulation") =>
           /\ heap'[page.uniformBuffer].data[1] = page.gravity
           /\ heap'[page.uniformBuffer].data[2] = page.damping
           /\ heap'[page.uniformBuffer].data[3] = page.wind
           /\ heap'[page.uniformBuffer].data[6] = page.stiffness
      /\ Len(heap') = Len(heap) ]_vars

\* The particle page's gravity was changed and a later frame wrote it to the
\* uniform buffer; the heap still holds the three buffers of the first build.
C13_Witness ==
  /\ page.kind = "particle-system"
  /\ page.gravity = 1000
  /\ log.frames > 0
  /\ heap[page.uniformBuffer].data[2] = 1000
  /\ Len(heap) = 3

\* C14: every initialize() call requests adapters in the fixed order
\* high-performance, default, low-power; an answer of null or an exception
\* is followed by the request of the next tier while one is left; the first
\* adapter obtained ends the loop: it is the last answer, no later tier is
\* requested and the call goes on to requestDevice with it.
C14_AdapterTierOrder ==
  \A c \in Callers :
    LET rq == hist.requests[c]
        oc == hist.outcomes[c]
    IN  /\ Len(rq) <= 3
        /\ \A i \in 1 .. Len(rq) :
             rq[i] = <<"high-performance", "default", "low-power">>[i]
        /\ Len(oc) <= Len(rq)
        /\ Len(rq) <= Len(oc) + 1
        /\ (calls[c].pc = "adapter") <=> (Len(rq) = Len(oc) + 1)
        /\ \A i \in 1 .. Len(oc) :
             /\ oc[i] = "adapter" => i = Len(oc) /\ Len(rq) = i
             /\ oc[i] # "adapter" /\ i < 3 => Len(rq) >= i + 1
        /\ calls[c].pc = "device" =>
             oc # <<>> /\ (oc[Len(oc)] = "adapter" \/ Len(oc) = 3)

C14_Witness ==
  /\ hist.requests["demo"] = <<"high-performance", "default", "low-power">>
  /\ hist.outcomes["demo"] = <<"null", "throw", "adapter">>
  /\ calls["demo"].pc = "device"

\* C15: when the demo's initialize() call got no adapter on any of the three
\* tiers (each answer was null or an exception), the mounted demo is in the
\* Error state with the adapter-failure message; that message, the
\* capability-absent message and the canvas-context message are pairwise
\* different.
AllTiersFailed(c) ==
  /\ Len(hist.outcomes[c]) = Len(adapterOptions)
  /\ \A i \in 1 .. Len(hist.outcomes[c]) : hist.outcomes[c][i] # "adapter"

C15_AllTiersFailedReportsNoAdapter ==
  /\ ErrNoAdapter # ErrUnsupported
  /\ ErrNoAdapter # ErrNoCanvasContext
  /\ ErrUnsupported # ErrNoCanvasContext
  /\ AllTiersFailed("demo") /\ ~comp.destroyed =>
       /\ calls["demo"].pc = "done"
       /\ ~comp.loading
       /\ comp.context = Null
       /\ comp.error = ErrNoAdapter

\* C16: the capability probe ('gpu' in navigator) is evaluated at most once
\* per service; once checkSupport has recorded 'unsupported', no call has
\* requested an adapter, every call made has returned null, the probe count
\* stays at one, and a mounted demo is in Error with the capability-absent
\* message.
C16_ProbeOnce ==
  /\ hist.probes <= 1
  /\ (svc.isSupported = "null") <=> (hist.probes = 0)
  /\ svc.isSupported = "false" =>
       /\ svc.error = ErrUnsupported
       /\ \A c \in Callers :
            /\ hist.requests[c] = <<>>
            /\ calls[c].pc \in {"idle", "done"}
            /\ calls[c].ret = Null
       /\ calls["demo"].pc = "done" =>
            /\ ~comp.loading
            /\ comp.context = Null
            /\ comp.error = ErrUnsupported

C16_Witness ==
  /\ svc.isSupported = "false"
  /\ hist.probes = 1
  /\ calls["home"].pc = "done"
  /\ calls["demo"].pc = "done"
  /\ comp.error = ErrUnsupported

\* C17: while a demo is mounted and its ResizeObserver is observing, the
\* canvas backing width and height equal the container's CSS width and
\* height multiplied by the device pixel ratio (1 when the ratio is 0), and
\* a container with nonzero layout size has a nonzero backing store.
C17_BackingSizeFollowsContainer ==
  comp.pc # "unmounted" /\ comp.resizeObserver = "observing" =>
    LET dpr == IF dom.devicePixelRatio[1] # 0 THEN dom.devicePixelRatio
               ELSE <<1, 1>>
    IN  /\ dom.canvasWidth * dpr[2] = dom.rectWidth * dpr[1]
        /\ dom.canvasHeight * dpr[2] = dom.rectHeight * dpr[1]
        /\ dom.rectWidth > 0 /\ dom.rectHeight > 0 =>
             dom.canvasWidth > 0 /\ dom.canvasHeight > 0

\* C18: once the demo's acquisition request has been issued, handleResize
\* has already run: the canvas no longer has its default size but the size
\* computed from the container; and the first frame callback of the mounted
\* demo runs with a computed size, neither the default 300x150 nor a zero
\* size.
DefaultCanvasSize == <<300, 150>>

C18_SizedBeforeFirstFrame ==
  /\ calls["demo"].pc # "idle" /\ comp.resizeObserver = "observing" =>
       LET dpr == IF dom.devicePixelRatio[1] # 0 THEN dom.devicePixelRatio
                  ELSE <<1, 1>>
       IN  /\ <<dom.canvasWidth, dom.canvasHeight>> # DefaultCanvasSize
           /\ dom.canvasWidth = (dom.rectWidth * dpr[1]) \div dpr[2]
           /\ dom.canvasHeight = (dom.rectHeight * dpr[1]) \div dpr[2]
  /\ hist.firstFrameSize # <<>> =>
       /\ calls["demo"].pc = "done"
       /\ hist.emitted
       /\ hist.firstFrameSize # DefaultCanvasSize
       /\ hist.firstFrameSize[1] > 0
       /\ hist.firstFrameSize[2] > 0

\* C19: a page with a depth buffer creates a depth texture only when none
\* exists or the canvas size differs from the texture's, and destroys the
\* old one first: every depth texture but the newest has been destroyed,
\* and a depth texture has another size than the one it replaced.
DepthTextures == {i \in DOMAIN heap : heap[i].label = "depthTexture"}

C19_DepthTextureReused ==
  \A i, j \in DepthTextures :
    i < j =>
      /\ heap[i].destroyed = 1
      /\ (\A k \in DepthTextures : ~(i < k /\ k < j)) =>
           heap[i].size # heap[j].size

\* C20: when initializePipeline has thrown during a parameter-driven
\* rebuild, the demo is in its error state with a message.
C20_RebuildFailureSurfaced ==
  log.rejected > 0 => comp.error # NoMessage /\ ~Ready(comp)

\* C21: for every sequence of startRenderLoop and stopRenderLoop calls, at
\* most one requestAnimationFrame callback is pending and animationFrameId
\* is the id of that pending callback.
C21_SingleCallbackChain ==
  /\ Cardinality(raf.pending) <= 1
  /\ \A id \in raf.pending : comp.animationFrameId = id

\* C22: the step of a device-loss notification leaves the service without a
\* device (device = null, isInitialized = false) and issues no adapter or
\* device request; a device request is only ever made by an initialize()
\* call that got its adapter; and a call that enters initialize() while no
\* device is held (as after a loss) starts the adapter loop at its first
\* tier, whatever was acquired before.
C22_LossNeedsNewCall ==
  [][ /\ (gpu'.lostHandlers # gpu.lostHandlers /\ gpu'.devices = gpu.devices) =>
           /\ svc'.device = Null
           /\ ~svc'.isInitialized
           /\ calls' = calls
           /\ hist'.requests = hist.requests
      /\ \A c \in Callers :
           /\ (calls'[c].pc = "device" /\ calls[c].pc # "device") =>
                calls[c].pc = "adapter"
           /\ (calls[c].pc = "idle" /\ calls'[c].pc # "idle"
                 /\ svc.device = Null /\ gpu.present) =>
                /\ calls'[c] = [pc |-> "adapter", tier |-> 1, ret |-> Null]
                /\ hist'.requests[c] = <<"high-performance">>
      /\ gpu'.devices # gpu.devices =>
           \E c \in Callers : calls[c].pc = "device" /\ calls'[c].pc = "done"
    ]_vars

C22_Witness ==
  /\ "demo" \in hist.afterLoss
  /\ gpu.devices = 2
  /\ 1 \notin gpu.lostHandlers
  /\ hist.requests["demo"] # <<>>
  /\ svc.device = 2
  /\ calls["demo"].ret = 2

\* C23: a rebuild of the ready Game of Life page (onGridSizeChange) sets the
\* generation counter to 0 and leaves the ping-pong step counter and the
\* grid size as they are; afterwards every cell buffer that is no longer
\* held has been destroyed exactly once, the two held cell buffers are new,
\* live and of gridSize x gridSize cells of 4 bytes, and the grid uniform
\* holds the grid size.
C23_GridSizeChangeRebuilds ==
  [][ (page.kind = "game-of-life" /\ page.context # Null
        /\ log'.rebuilds = log.rebuilds + 1) =>
        /\ page'.generation = 0
        /\ page'.step = page.step
        /\ page'.gridSize = page.gridSize
        /\ Len(page'.cellBuffers) = 2
        /\ page'.cellBuffers[1] # page'.cellBuffers[2]
        /\ \A i \in 1 .. 2 :
             /\ page'.cellBuffers[i] > Len(heap)
             /\ heap'[page'.cellBuffers[i]].destroyed = 0
             /\ heap'[page'.cellBuffers[i]].size = page.gridSize * page.gridSize * 4
        /\ \A b \in DOMAIN heap' :
             (heap'[b].label = "cellBuffers" /\ ~Contains(page'.cellBuffers, b)) =>
               heap'[b].destroyed = 1
        /\ \A i \in 1 .. Len(page.cellBuffers) :
             heap'[page.cellBuffers[i]].destroyed = heap[page.cellBuffers[i]].destroyed + 1
        /\ heap'[page'.uniformBuffer].data = <<page.gridSize, page.gridSize>>
    ]_vars

C23_Witness ==
  /\ page.kind = "game-of-life"
  /\ page.gridSize = 320
  /\ log.rebuilds = 1
  /\ log.frames > 0
  /\ page.step > 0
  /\ page.generation = 0
  /\ heap[page.uniformBuffer].data = <<320, 320>>
  /\ heap[page.cellBuffers[1]].size = 409600
  /\ heap[1].destroyed = 1

\* C24: the fps signal is written only in a frame whose timestamp is at
\* least 1000 ms after the timestamp of the previous write; the value
\* written is the number of frame callbacks since the previous write (this
\* one included) and the counter restarts at 0; in every other frame the
\* signal keeps its value and the counter goes up by one.
C24_FpsOncePerSecond ==
  [][ raf'.now # raf.now =>
        LET k == log.clock
            wrote == comp'.fpsUpdateTime # comp.fpsUpdateTime
        IN  /\ comp.frameCount = k.sinceWrite
            /\ wrote =>
                 /\ k.lastWrite # <<>> => raf'.now - k.lastWrite[1] >= 1000
                 /\ comp'.fpsUpdateTime = raf'.now
                 /\ comp'.fps = k.sinceWrite + 1
                 /\ comp'.frameCount = 0
            /\ ~wrote =>
                 /\ comp'.fps = comp.fps
                 /\ comp'.frameCount = comp.frameCount + 1
                 /\ k.lastWrite # <<>> => raf'.now - k.lastWrite[1] < 1000
    ]_vars

C24_Witness ==
  /\ log.clock.calls = 4
  /\ log.clock.lastWrite = <<raf.now>>
  /\ comp.fpsUpdateTime = raf.now
  /\ raf.now = 2400
  /\ comp.fps = 3
  /\ comp.frameCount = 0

\* C25: every invocation of `loop` calls the render callback with its
\* timestamp and with deltaTime = timestamp minus the timestamp of the
\* previous invocation (minus 0, the initial lastTime, for the first one);
\* the callback runs after the FPS counter was updated and before the next
\* frame is requested.
C25_DeltaTimeBetweenInvocations ==
  [][ raf'.now # raf.now =>
        LET call == log'.clock.call[1]
            previous == IF log.clock.calls = 0 THEN 0
                        ELSE log.clock.call[1].time
        IN  /\ log'.clock.calls = log.clock.calls + 1
            /\ call.time = raf'.now
            /\ call.deltaTime = raf'.now - previous
            /\ call.fps = comp'.fps
            /\ call.frameCount = comp'.frameCount
            /\ call.frameCount =
                 IF comp'.fpsUpdateTime # comp.fpsUpdateTime THEN 0
                 ELSE comp.frameCount + 1
            /\ call.pending \subseteq raf.pending
            /\ comp'.animationFrameId \notin call.pending
            /\ comp'.animationFrameId \in raf'.pending
    ]_vars

C25_Witness ==
  /\ log.clock.calls = 2
  /\ log.clock.call[1].time = 6000
  /\ log.clock.call[1].deltaTime = 700
  /\ comp.lastTime = 6000

\* C26: on a ready page, once the change handler of the variant selector
\* has run, the variant compiled into the pipeline that the frames draw
\* with is the selected variant.
C26_CompiledVariantIsSelected ==
  page.context # Null => page.pipeline /\ page.compiled = page.selected

\* The buffers the render callback of a fluid or rigid-body page binds in a
\* frame: those of the compute bind groups, those the render pass reads and
\* the vertex and index buffers.
BoundInFrames(p) ==
  LET Elems(t) == {t[i] : i \in DOMAIN t}
      Groups(g) == UNION {Elems(g[i]) : i \in DOMAIN g}
  IN  CASE p.kind = "fluid-simulation" ->
             Groups(p.bindGroups) \cup Elems(p.densityBuffers)
               \cup Elems(p.velocityBuffers) \cup Elems(p.colorBuffers)
        [] p.kind = "rigid-body-physics" ->
             Groups(p.computeBindGroups) \cup Elems(p.renderBindGroup)
               \cup Elems(p.positionBuffers)
               \cup {p.vertexBuffer, p.indexBuffer}
        [] OTHER -> {}

\* C27: in the fluid and rigid-body demos, also after resetSimulation, every
\* buffer bound by the frames that follow (compute bind groups, render bind
\* group, vertex buffers) is live, not destroyed.
C27_FramesBindLiveBuffers ==
  (page.kind \in {"fluid-simulation", "rigid-body-physics"}
     /\ page.context # Null /\ page.computePipeline /\ page.renderPipeline) =>
    \A b \in BoundInFrames(page) : heap[b].destroyed = 0

\* C28: while no device has been lost, overlapping initialize() calls
\* request at most one device in total (pending requestDevice calls and
\* devices obtained), and every caller that received a device received the
\* one the service holds.
C28_OneDeviceForOverlappingCalls ==
  gpu.lostHandlers = 1 .. gpu.devices =>
    /\ Cardinality({c \in Callers : calls[c].pc = "device"}) + gpu.devices <= 1
    /\ \A c \in Callers :
         (calls[c].pc = "done" /\ calls[c].ret # Null) =>
           calls[c].ret = svc.device

\* The GPU buffers (not textures) of heap h that were created and not
\* destroyed.
LiveBuffers(h) ==
  {b \in DOMAIN h : h[b].label # "depthTexture" /\ h[b].destroyed = 0}

\* C29: a frame callback leaves the number of GPU buffers that were created
\* and not destroyed as it was: a frame allocates no buffer that outlives
\* it.
C29_FramesAllocateNoBuffer ==
  [][ log'.frames = log.frames + 1 =>
        Cardinality(LiveBuffers(heap')) = Cardinality(LiveBuffers(heap)) ]_vars

\* The bytes one instance takes in the per-instance buffer of a page: eight
\* floats per cube, six per particle, four per body, five per data point.
InstanceStride(kind) ==
  CASE kind = "instanced-rendering" -> 8 * 4
    [] kind = "particle-system"     -> 6 * 4
    [] kind = "rigid-body-physics"  -> 4 * 4
    [] kind = "data-visualization"  -> 5 * 4

\* C30: under any interleaving of slider model updates, change handlers and
\* frames, on the instanced-rendering, particle-system and
\* data-visualization pages the instance count of the draw call of the last
\* frame does not exceed the number of elements the buffer bound in that
\* frame was allocated for.
C30_DrawCountWithinBuffer ==
  page.kind \in {"instanced-rendering", "particle-system",
                 "data-visualization"} =>
    \A i \in DOMAIN log.frame.commands :
      LET c == log.frame.commands[i]
      IN  "instanceCount" \in DOMAIN c =>
            \A b \in c.reads :
              c.instanceCount * InstanceStride(page.kind) <= heap[b].size
====
